---- MODULE Spec2Model ----
(***************************************************************************)
(* Lottery slot inventory: scan buffering, digit extraction, barcode       *)
(* validation and the slot / sold-out store, with the screens that drive   *)
(* them (inventory screen, add screen, scanner modal, scanner test).       *)
(*                                                                         *)
(* Strings are sequences of character codes (48..57 are the digits, 10 LF, *)
(* 13 CR).  A null string is the value Null, a null number is 0 or -1 as   *)
(* noted at each field.  Instants are milliseconds in the variable now.    *)
(***************************************************************************)
EXTENDS Integers, Sequences, FiniteSets, TLC

(***************************************************************************)
(* Characters and strings                                                  *)
(***************************************************************************)
Null == << -1 >>
Empty == << >>
LF == 10
CR == 13

IsDigit(c) == c >= 48 /\ c <= 57
IsSpace(c) == c \in {9, 10, 11, 12, 13, 32}

\* a literal digit string from its digits
Digits(ds) == [i \in 1..Len(ds) |-> 48 + ds[i]]

Min(a, b) == IF a < b THEN a ELSE b
Max(a, b) == IF a > b THEN a ELSE b

\* String.prototype.substring(0, n)
Prefix(s, n) == SubSeq(s, 1, Min(n, Len(s)))
\* String.prototype.slice(-n)
Suffix(s, n) == SubSeq(s, Max(1, Len(s) - n + 1), Len(s))

\* String.prototype.replace(/[^0-9]/g, '')
CleanDigits(s) == SelectSeq(s, IsDigit)

\* String.prototype.trim()
TrimLeft(s) ==
  IF s = Empty \/ ~IsSpace(s[1]) THEN s
  ELSE IF \A i \in 1..Len(s) : IsSpace(s[i]) THEN Empty
  ELSE SubSeq(s, CHOOSE i \in 1..Len(s) : ~IsSpace(s[i]) /\ \A j \in 1..(i - 1) : IsSpace(s[j]), Len(s))

TrimRight(s) ==
  IF s = Empty \/ ~IsSpace(s[Len(s)]) THEN s
  ELSE IF \A i \in 1..Len(s) : IsSpace(s[i]) THEN Empty
  ELSE SubSeq(s, 1, CHOOSE i \in 1..Len(s) : ~IsSpace(s[i]) /\ \A j \in (i + 1)..Len(s) : IsSpace(s[j]))

Trim(s) == TrimRight(TrimLeft(s))

\* /^\d+$/.test(s)
AllDigits(s) == s # Empty /\ \A i \in 1..Len(s) : IsDigit(s[i])

\* String.prototype.includes(c) for a single character
Includes(s, c) == \E i \in 1..Len(s) : s[i] = c

(***************************************************************************)
(* scannerUtils: analysis and extraction                                   *)
(***************************************************************************)
DEFAULT_SCANNER_DELAY == 500

analyzeRawBarcode(rawInput) ==
  LET cleaned == CleanDigits(rawInput) IN
  [ rawLength      |-> Len(rawInput),
    cleanedBarcode |-> cleaned,
    cleanedLength  |-> Len(cleaned),
    charCodes      |-> rawInput,
    controlChars   |-> SelectSeq([i \in 1..Len(rawInput) |->
                                    [code |-> rawInput[i], position |-> i - 1]],
                                 LAMBDA c : c.code < 32 \/ c.code = 127) ]

\* an extractor that cuts nothing below 24 digits
extractUncut(rawInput) ==
  LET allDigits == CleanDigits(rawInput) IN
  IF Len(allDigits) >= 24 THEN Prefix(Suffix(allDigits, 24), 14) ELSE allDigits

\* an extractor that always keeps the last 14 digits
extractLast14(rawInput) ==
  LET allDigits == CleanDigits(rawInput) IN
  IF Len(allDigits) > 14 THEN Suffix(allDigits, 14) ELSE allDigits

\* an extractor that keeps 15 digits of the last 24
extractFifteen(rawInput) ==
  LET allDigits == CleanDigits(rawInput) IN
  IF Len(allDigits) >= 24
  THEN Prefix(Suffix(allDigits, 24), 15)
  ELSE IF Len(allDigits) > 14 THEN Suffix(allDigits, 14) ELSE allDigits

\* an extractor that keeps the first 14 digits of a long scan
extractFirst14(rawInput) ==
  LET allDigits == CleanDigits(rawInput) IN
  IF Len(allDigits) >= 24
  THEN Prefix(allDigits, 14)
  ELSE IF Len(allDigits) > 14 THEN Suffix(allDigits, 14) ELSE allDigits

extractBarcodeIdentifier(rawInput) ==
  LET allDigits == CleanDigits(rawInput) IN
  IF Len(allDigits) >= 24
  THEN Prefix(Suffix(allDigits, 24), 14)
  ELSE IF Len(allDigits) > 14 THEN Suffix(allDigits, 14) ELSE allDigits

(***************************************************************************)
(* Time                                                                    *)
(***************************************************************************)
MsPerDay == 86400000
NoTime == -1

\* new Date(ts).toDateString(): the calendar day of an instant
DateOf(t) == t \div MsPerDay

(***************************************************************************)
(* inventoryStore: data and pure parts of the operations                   *)
(***************************************************************************)
NumSlots == 20
SentinelGamepack == Digits(<<0,0,0,0,0,0,0,0,0,0,0>>)
SentinelBarcode == Digits(<<0,0,0,0,0,0,0,0,0,0,0,0,0,0>>)

gameData(prefix) ==
  CASE prefix = Digits(<<1,2,3,4,5>>) -> [name |-> "Lucky 7s", price |-> "$5", type |-> "Scratch-off"]
    [] prefix = Digits(<<2,3,4,5,6>>) -> [name |-> "Gold Rush", price |-> "$10", type |-> "Scratch-off"]
    [] prefix = Digits(<<3,4,5,6,7>>) -> [name |-> "Mega Millions", price |-> "$20", type |-> "Scratch-off"]
    [] prefix = Digits(<<4,5,6,7,8>>) -> [name |-> "Cash Explosion", price |-> "$30", type |-> "Scratch-off"]
    [] prefix = Digits(<<5,6,7,8,9>>) -> [name |-> "Diamond Dazzler", price |-> "$2", type |-> "Scratch-off"]
    [] OTHER -> [name |-> "Unknown Game", price |-> "N/A", type |-> "Scratch-off"]

getGameInfo(gamepackNumber) == gameData(Prefix(gamepackNumber, 5))

\* a JavaScript string is truthy when it is neither null nor empty
Truthy(s) == s # Null /\ s # Empty

initialSlots ==
  [i \in 1..NumSlots |->
     [ id |-> i, status |-> "empty", barcode |-> Null, timestamp |-> NoTime,
       gamepackNumber |-> Null, soldOut |-> FALSE ]]

\* slots.find(s => s.id === id): the index of the first match, 0 when none
FindSlot(ss, id) ==
  IF \E i \in 1..Len(ss) : ss[i].id = id
  THEN CHOOSE i \in 1..Len(ss) : ss[i].id = id /\ \A j \in 1..(i - 1) : ss[j].id # id
  ELSE 0

\* an updateSlot that keeps the whole barcode as the gamepack number
updateSlotWhole(ss, id, barcode, t) ==
  [i \in 1..Len(ss) |->
     IF ss[i].id = id
     THEN [ss[i] EXCEPT !.status = "scanned", !.barcode = barcode,
                        !.gamepackNumber = barcode, !.soldOut = FALSE,
                        !.timestamp = t]
     ELSE ss[i]]

\* an updateSlot that leaves soldOut as it was
updateSlotKeepingSoldOut(ss, id, barcode, t) ==
  LET gamepackNumber == IF Len(barcode) >= 11 THEN Prefix(barcode, 11) ELSE barcode IN
  [i \in 1..Len(ss) |->
     IF ss[i].id = id
     THEN [ss[i] EXCEPT !.status = "scanned", !.barcode = barcode,
                        !.gamepackNumber = gamepackNumber, !.timestamp = t]
     ELSE ss[i]]

updateSlotIn(ss, id, barcode, t) ==
  LET gamepackNumber == IF Len(barcode) >= 11 THEN Prefix(barcode, 11) ELSE barcode IN
  [i \in 1..Len(ss) |->
     IF ss[i].id = id
     THEN [ss[i] EXCEPT !.status = "scanned", !.barcode = barcode,
                        !.gamepackNumber = gamepackNumber, !.soldOut = FALSE,
                        !.timestamp = t]
     ELSE ss[i]]

\* a clearSlot that leaves the slot waiting for a scan
clearSlotPending(ss, id) ==
  [i \in 1..Len(ss) |->
     IF ss[i].id = id
     THEN [ss[i] EXCEPT !.status = "pending", !.barcode = Null, !.gamepackNumber = Null,
                        !.soldOut = FALSE, !.timestamp = NoTime]
     ELSE ss[i]]

\* a clearSlot that removes the slot: filter instead of map
clearSlotRemoving(ss, id) == SelectSeq(ss, LAMBDA slot : slot.id # id)

clearSlotIn(ss, id) ==
  [i \in 1..Len(ss) |->
     IF ss[i].id = id
     THEN [ss[i] EXCEPT !.status = "empty", !.barcode = Null,
                        !.gamepackNumber = Null, !.soldOut = FALSE,
                        !.timestamp = NoTime]
     ELSE ss[i]]

markAsEmptyIn(ss, id, t) ==
  [i \in 1..Len(ss) |->
     IF ss[i].id = id
     THEN [ss[i] EXCEPT !.status = "empty", !.barcode = SentinelBarcode,
                        !.gamepackNumber = SentinelGamepack, !.timestamp = t]
     ELSE ss[i]]

\* the guard of markAsSoldOut
\* a guard that refuses a slot already sold out
CanSellOutOnce(ss, id) ==
  /\ FindSlot(ss, id) # 0
  /\ Truthy(ss[FindSlot(ss, id)].gamepackNumber)
  /\ ss[FindSlot(ss, id)].gamepackNumber # SentinelGamepack
  /\ ~ss[FindSlot(ss, id)].soldOut

\* a guard that forgets the sentinel: `slot && slot.gamepackNumber`
CanSellOutAny(ss, id) ==
  /\ FindSlot(ss, id) # 0
  /\ Truthy(ss[FindSlot(ss, id)].gamepackNumber)

CanSellOut(ss, id) ==
  /\ FindSlot(ss, id) # 0
  /\ Truthy(ss[FindSlot(ss, id)].gamepackNumber)
  /\ ss[FindSlot(ss, id)].gamepackNumber # SentinelGamepack

newSoldOutPack(ss, id, t) ==
  LET gamepackNumber == ss[FindSlot(ss, id)].gamepackNumber
      gameInfo == getGameInfo(gamepackNumber) IN
  [ id |-> <<gamepackNumber, t>>, gamepackNumber |-> gamepackNumber,
    gameName |-> gameInfo.name, price |-> gameInfo.price, type |-> gameInfo.type,
    soldOutDate |-> t, slotId |-> id ]

\* a markAsSoldOut that also returns the slot to the status 'empty'
markAsSoldOutEmptying(ss, id) ==
  IF CanSellOut(ss, id)
  THEN [i \in 1..Len(ss) |->
          IF ss[i].id = id THEN [ss[i] EXCEPT !.soldOut = TRUE, !.status = "empty"] ELSE ss[i]]
  ELSE ss

markAsSoldOutSlots(ss, id) ==
  IF CanSellOut(ss, id)
  THEN [i \in 1..Len(ss) |-> IF ss[i].id = id THEN [ss[i] EXCEPT !.soldOut = TRUE] ELSE ss[i]]
  ELSE ss

\* a markAsSoldOut that records nothing
markAsSoldOutSilent(ss, packs, id, t) == packs

\* a markAsSoldOut that puts the new record first
markAsSoldOutFirst(ss, packs, id, t) ==
  IF CanSellOut(ss, id) THEN <<newSoldOutPack(ss, id, t)>> \o packs ELSE packs

markAsSoldOutPacks(ss, packs, id, t) ==
  IF CanSellOut(ss, id) THEN Append(packs, newSoldOutPack(ss, id, t)) ELSE packs

getPreviousGamepack(ss, slotId) ==
  LET k == FindSlot(ss, slotId) IN
  IF k = 0 THEN Null
  ELSE IF ~Truthy(ss[k].barcode) \/ ss[k].gamepackNumber = SentinelGamepack THEN Null
  ELSE IF Truthy(ss[k].gamepackNumber) THEN ss[k].gamepackNumber ELSE Null

checkGamepackUniqueness(ss, gamepack, t) ==
  IF gamepack = SentinelGamepack THEN TRUE
  ELSE ~\E i \in 1..Len(ss) :
          /\ ss[i].timestamp # NoTime
          /\ ss[i].gamepackNumber = gamepack
          /\ DateOf(ss[i].timestamp) = DateOf(t)
          /\ ~ss[i].soldOut

(***************************************************************************)
(* barcodeValidation                                                       *)
(***************************************************************************)
Result(valid, confirm, prev, msg) ==
  [ isValid |-> valid, requiresConfirmation |-> confirm,
    previousGamepack |-> prev, message |-> msg ]

\* a validator that tests uniqueness before the previous gamepack
validateUniquenessFirst(barcode, slotId, ss, t) ==
  IF Trim(barcode) = Empty
  THEN Result(FALSE, FALSE, Null, "Please enter a barcode")
  ELSE IF Len(barcode) < 14
  THEN Result(FALSE, FALSE, Null, "Barcode must be at least 14 digits")
  ELSE IF ~AllDigits(barcode)
  THEN Result(FALSE, FALSE, Null, "Barcode must contain only numbers")
  ELSE LET gamepackNumber == Prefix(barcode, 11)
           previousGamepack == getPreviousGamepack(ss, slotId) IN
       IF gamepackNumber = SentinelGamepack
       THEN Result(TRUE, FALSE, Null, "")
       ELSE IF ~checkGamepackUniqueness(ss, gamepackNumber, t)
       THEN Result(FALSE, FALSE, Null, "This gamepack is already active in another slot today.")
       ELSE IF Truthy(previousGamepack) /\ previousGamepack # SentinelGamepack
               /\ previousGamepack # gamepackNumber
       THEN Result(FALSE, TRUE, previousGamepack, "Was the previous pack completely sold out?")
       ELSE Result(TRUE, FALSE, Null, "")

\* a validator that tests the previous gamepack before the sentinel
validateSentinelLate(barcode, slotId, ss, t) ==
  IF Trim(barcode) = Empty
  THEN Result(FALSE, FALSE, Null, "Please enter a barcode")
  ELSE IF Len(barcode) < 14
  THEN Result(FALSE, FALSE, Null, "Barcode must be at least 14 digits")
  ELSE IF ~AllDigits(barcode)
  THEN Result(FALSE, FALSE, Null, "Barcode must contain only numbers")
  ELSE LET gamepackNumber == Prefix(barcode, 11)
           previousGamepack == getPreviousGamepack(ss, slotId) IN
       IF Truthy(previousGamepack) /\ previousGamepack # SentinelGamepack
          /\ previousGamepack # gamepackNumber
       THEN Result(FALSE, TRUE, previousGamepack, "Was the previous pack completely sold out?")
       ELSE IF gamepackNumber = SentinelGamepack
       THEN Result(TRUE, FALSE, Null, "")
       ELSE IF ~checkGamepackUniqueness(ss, gamepackNumber, t)
       THEN Result(FALSE, FALSE, Null, "This gamepack is already active in another slot today.")
       ELSE Result(TRUE, FALSE, Null, "")

\* a validator that tests the characters before the length
validateDigitsFirst(barcode, slotId, ss, t) ==
  IF Trim(barcode) = Empty
  THEN Result(FALSE, FALSE, Null, "Please enter a barcode")
  ELSE IF ~AllDigits(barcode)
  THEN Result(FALSE, FALSE, Null, "Barcode must contain only numbers")
  ELSE IF Len(barcode) < 14
  THEN Result(FALSE, FALSE, Null, "Barcode must be at least 14 digits")
  ELSE LET gamepackNumber == Prefix(barcode, 11)
           previousGamepack == getPreviousGamepack(ss, slotId) IN
       IF gamepackNumber = SentinelGamepack
       THEN Result(TRUE, FALSE, Null, "")
       ELSE IF Truthy(previousGamepack) /\ previousGamepack # SentinelGamepack
               /\ previousGamepack # gamepackNumber
       THEN Result(FALSE, TRUE, previousGamepack, "Was the previous pack completely sold out?")
       ELSE IF ~checkGamepackUniqueness(ss, gamepackNumber, t)
       THEN Result(FALSE, FALSE, Null, "This gamepack is already active in another slot today.")
       ELSE Result(TRUE, FALSE, Null, "")

validateBarcode(barcode, slotId, ss, t) ==
  IF Trim(barcode) = Empty
  THEN Result(FALSE, FALSE, Null, "Please enter a barcode")
  ELSE IF Len(barcode) < 14
  THEN Result(FALSE, FALSE, Null, "Barcode must be at least 14 digits")
  ELSE IF ~AllDigits(barcode)
  THEN Result(FALSE, FALSE, Null, "Barcode must contain only numbers")
  ELSE LET gamepackNumber == Prefix(barcode, 11)
           previousGamepack == getPreviousGamepack(ss, slotId) IN
       IF gamepackNumber = SentinelGamepack
       THEN Result(TRUE, FALSE, Null, "")
       ELSE IF Truthy(previousGamepack) /\ previousGamepack # SentinelGamepack
               /\ previousGamepack # gamepackNumber
       THEN Result(FALSE, TRUE, previousGamepack, "Was the previous pack completely sold out?")
       ELSE IF ~checkGamepackUniqueness(ss, gamepackNumber, t)
       THEN Result(FALSE, FALSE, Null, "This gamepack is already active in another slot today.")
       ELSE Result(TRUE, FALSE, Null, "")


(***************************************************************************)
(* State                                                                   *)
(***************************************************************************)
VARIABLES
  slots,         \* store: the slot collection (a sequence of slot records)
  soldOutPacks,  \* store: the sold-out ledger
  selectedSlot,  \* store: selectedSlot (0 = null)
  now,           \* the clock, in milliseconds
  timers,        \* pending delayed callbacks (setTimeout, animation completion)
  savedDelay,    \* AsyncStorage 'scanner_delay' (0 = nothing saved)
  alert,         \* the Alert dialog on display, NoAlert when none
  inv,           \* InventoryScreen component state
  add,           \* AddScreen component state
  modal,         \* ScannerModal component state and props
  test,          \* ScannerTestScreen component state
  ops,           \* how many gestures the operator still makes
  last           \* history: the last handler that ran and what it decided

vars == <<slots, soldOutPacks, selectedSlot, now, timers, savedDelay, alert,
          inv, add, modal, test, ops, last>>

(***************************************************************************)
(* Bounds of the exploration                                               *)
(***************************************************************************)
MaxOps == 7         \* gestures of the operator on the add screen
InvOps == 6         \* gestures of the operator on the inventory screen
ScanOps == 5        \* gestures of the operator along the scan paths
MaxSlot == 2        \* the operator works on slots 1..MaxSlot
MaxDay == 1         \* the clock runs over days 0..MaxDay
GapMs == 50         \* the pause between two fragments of a scan

\* gamepacks and raw scanner fragments the operator uses
PackA == Digits(<<1,2,3,4,5,0,0,0,0,0,1>>)
PackB == Digits(<<2,3,4,5,6,0,0,0,0,0,2>>)
DigitsA == PackA \o Digits(<<0,0,1>>)
DigitsB == PackB \o Digits(<<0,0,2>>)
DigitsZero == SentinelGamepack \o Digits(<<1,2,3>>)
FrameA == PackA \o Digits(<<0,0,1,9,9,9,9,9,9,9,9,9,9>>)
FrameB == PackB \o Digits(<<0,0,2,9,9,9,9,9,9,9,9,9,9>>)
FragHead == Digits(<<1,2,3,4>>)
FragTail == Digits(<<5,6,7,8,9,0,1,2,3,4>>) \o <<LF>>

\* AsyncStorage 'scanner_delay': nothing saved (0), or a value of the settings screen
Delays == {0, 100}

(***************************************************************************)
(* Timers: setTimeout / clearTimeout and animation completion callbacks    *)
(***************************************************************************)
NoAlert == [kind |-> "none", screen |-> "none", slotId |-> 0, slotText |-> Empty, barcode |-> Null]

Alert(kind, screen, slotId, slotText, barcode) ==
  [kind |-> kind, screen |-> screen, slotId |-> slotId, slotText |-> slotText, barcode |-> barcode]

UsedIds == {t.id : t \in timers} \cup
           {inv.timeoutRef, add.timeoutRef, modal.timeoutRef, test.timeoutRef}

\* the handle setTimeout returns: one no live or remembered handle uses
FreshId(used) == CHOOSE n \in 1..(Cardinality(used) + 1) :
                   n \notin used /\ \A m \in 1..(n - 1) : m \in used

Timer(id, owner, kind, fireAt, text, slotId, snap) ==
  [ id |-> id, owner |-> owner, kind |-> kind, fireAt |-> fireAt,
    text |-> text, slotId |-> slotId, snap |-> snap ]

\* a clearTimeout that cancels nothing
keepTimeout(ts, ref) == ts

\* a clearTimeout that cancels only a timer that is already due
clearTimeoutWhenDue(ts, ref) == {t \in ts : t.id # ref \/ t.fireAt > now}

\* clearTimeout(ref.current), guarded by `if (ref.current)`
clearTimeout(ts, ref) == {t \in ts : t.id # ref}

\* a timer that is due only once its time has strictly passed
DueLater(t) == t.fireAt < now

Due(t) == t.fireAt <= now

Event(op, screen, via, pending, identifier, decision, slotId) ==
  [ op |-> op, screen |-> screen, via |-> via, pending |-> pending,
    identifier |-> identifier, decision |-> decision, slotId |-> slotId,
    prev |-> getPreviousGamepack(slots, slotId), at |-> now ]

Ran(op, screen) == Event(op, screen, "user", Null, Null, "none", 0)

\* getScannerDelay(): the saved value, or the default
getScannerDelay == IF savedDelay # 0 THEN savedDelay ELSE DEFAULT_SCANNER_DELAY

(***************************************************************************)
(* Initial state: the store as created, every screen as first rendered     *)
(***************************************************************************)
\* saved: what AsyncStorage may hold; gestures: how many the operator makes
Boot(saved, gestures) ==
  /\ slots = << >>
  /\ soldOutPacks = << >>
  /\ selectedSlot = 0
  /\ now = 0
  /\ timers = {}
  /\ savedDelay \in saved
  /\ alert = NoAlert
  /\ inv = [ selectedSlotId |-> 0, scanMode |-> FALSE, scanInput |-> Empty,
             timeoutRef |-> 0, scannerDelay |-> DEFAULT_SCANNER_DELAY,
             error |-> "" ]
  /\ add = [ barcode |-> Empty, slotNumber |-> Empty, buffer |-> Empty,
             timeoutRef |-> 0, scannerDelay |-> DEFAULT_SCANNER_DELAY,
             error |-> "" ]
  /\ modal = [ visible |-> FALSE, slotId |-> 0, rawInput |-> Empty,
               timeoutRef |-> 0, scannerDelay |-> DEFAULT_SCANNER_DELAY,
               error |-> "" ]
  /\ test = [ input |-> Empty, buffer |-> Empty, timeoutRef |-> 0,
              scannerDelay |-> DEFAULT_SCANNER_DELAY, lastScan |-> Empty,
              scanHistory |-> << >>, debugInfo |-> << >> ]
  /\ ops = gestures
  /\ last = Ran("init", "none")

\* a fresh install: nothing saved
Init == Boot({0}, MaxOps)

(***************************************************************************)
(* Environment bounds shared by the screens                                *)
(***************************************************************************)
OpSlots == 1..MaxSlot

Mounted == slots # << >>

PendingOf(owner) == {t \in timers : t.owner = owner}

InvIdle == inv.scanInput = Empty /\ PendingOf("inv") = {}
AddIdle == add.barcode = Empty /\ add.buffer = Empty /\ PendingOf("add") = {}
ModalIdle == modal.rawInput = Empty /\ PendingOf("modal") = {}
TestIdle == test.input = Empty /\ test.buffer = Empty /\ PendingOf("test") = {}

\* every screen's loadSettings has resolved
Loaded ==
  /\ inv.scannerDelay = getScannerDelay /\ add.scannerDelay = getScannerDelay
  /\ modal.scannerDelay = getScannerDelay
  /\ savedDelay # 0 => test.scannerDelay = savedDelay

\* the screen has settled: no animation or navigation callback is pending
Settled == \A t \in timers : t.kind = "autoSubmit"

\* the operator starts once the settings have loaded, works one screen at a
\* time and lets the screen settle before the next gesture; a dialog on display takes every gesture
CanUse(screen) ==
  /\ Mounted
  /\ Loaded
  /\ ops > 0
  /\ alert = NoAlert
  /\ Settled
  /\ screen # "inv" => InvIdle
  /\ screen # "add" => AddIdle
  /\ screen # "modal" => ModalIdle
  /\ screen # "test" => TestIdle

CanAnswer(kind, screen) ==
  /\ ops > 0
  /\ alert.kind = kind /\ alert.screen = screen


(***************************************************************************)
(* InventoryScreen                                                         *)
(***************************************************************************)
ExitAnimMs == 300
NextSlotMs == 500
ListTriggerMs == 300

\* slots.find(pred): the id of the first slot among the indexes that satisfy
\* pred, 0 when there is none
FirstId(ss, found) ==
  IF found = {} THEN 0
  ELSE ss[CHOOSE i \in found : \A j \in found : i <= j].id

\* a navigator that looks for an untouched slot before a pending one
findNextUntouchedFirst(ss) ==
  LET pendingSlot == FirstId(ss, {i \in 1..Len(ss) : ss[i].status = "pending"})
      unprocessedSlot == FirstId(ss, {i \in 1..Len(ss) :
                                        ss[i].barcode = Null /\ ss[i].status = "empty"})
      nonScannedSlot == FirstId(ss, {i \in 1..Len(ss) : ss[i].status # "scanned"}) IN
  IF unprocessedSlot # 0 THEN unprocessedSlot
  ELSE IF pendingSlot # 0 THEN pendingSlot
  ELSE IF nonScannedSlot # 0 THEN nonScannedSlot
  ELSE 1

findNextAvailableSlot(ss) ==
  LET pendingSlot == FirstId(ss, {i \in 1..Len(ss) : ss[i].status = "pending"})
      unprocessedSlot == FirstId(ss, {i \in 1..Len(ss) :
                                        ss[i].barcode = Null /\ ss[i].status = "empty"})
      nonScannedSlot == FirstId(ss, {i \in 1..Len(ss) : ss[i].status # "scanned"}) IN
  IF pendingSlot # 0 THEN pendingSlot
  ELSE IF unprocessedSlot # 0 THEN unprocessedSlot
  ELSE IF nonScannedSlot # 0 THEN nonScannedSlot
  ELSE 1

\* useEffect of the first render: initializeSlots() when the store holds no slot
InvMount ==
  /\ Len(slots) = 0
  /\ slots' = initialSlots
  /\ last' = Ran("initializeSlots", "inv")
  /\ UNCHANGED <<soldOutPacks, selectedSlot, now, timers, savedDelay, alert, inv, add, modal, test, ops>>

\* loadSettings of the mount effect: getScannerDelay() resolves
InvLoadSettings ==
  /\ Mounted /\ InvIdle /\ ~inv.scanMode
  /\ inv.scannerDelay # getScannerDelay
  /\ inv' = [inv EXCEPT !.scannerDelay = getScannerDelay]
  /\ last' = Ran("loadSettings", "inv")
  /\ UNCHANGED <<slots, soldOutPacks, selectedSlot, now, timers, savedDelay, alert, add, modal, test, ops>>

\* enterScanMode(): the state it sets (its animation only moves the focus)
enterScanMode(st) == [st EXCEPT !.scanMode = TRUE, !.scanInput = Empty, !.error = ""]

\* exitScanMode(): cancels the auto-submit and starts the closing animation,
\* whose completion callback resets the scan state
exitScanMode(ts, ref, id) ==
  clearTimeout(ts, ref) \cup {Timer(id, "inv", "exitAnim", now + ExitAnimMs, Empty, 0, << >>)}

\* triggerFabForNextSlot(): the next slot is computed now, over the slots the
\* calling render saw, and selected after NextSlotMs
triggerFabForNextSlot(ts, snap, id) ==
  ts \cup {Timer(id, "inv", "nextSlot", now + NextSlotMs, Empty, findNextAvailableSlot(snap), << >>)}

handleSlotPress(id) ==
  /\ CanUse("inv")
  /\ inv' = [enterScanMode(inv) EXCEPT !.selectedSlotId = id]
  /\ selectedSlot' = id
  /\ ops' = ops - 1
  /\ last' = [Ran("slotPress", "inv") EXCEPT !.slotId = id]
  /\ UNCHANGED <<slots, soldOutPacks, now, timers, savedDelay, alert, add, modal, test>>

fabPress ==
  /\ CanUse("inv")
  /\ findNextAvailableSlot(slots) \in OpSlots
  /\ inv' = [enterScanMode(inv) EXCEPT !.selectedSlotId = findNextAvailableSlot(slots)]
  /\ selectedSlot' = findNextAvailableSlot(slots)
  /\ ops' = ops - 1
  /\ last' = [Ran("fabPress", "inv") EXCEPT !.slotId = findNextAvailableSlot(slots)]
  /\ UNCHANGED <<slots, soldOutPacks, now, timers, savedDelay, alert, add, modal, test>>

\* onChangeText of the scan input: text is the field's whole new content.  The
\* callback it schedules calls the handleSubmitScan of the render that created
\* this handler, which sees that render's scanInput, selectedSlotId and slots.
handleScanInputChange(frag) ==
  LET text == inv.scanInput \o frag
      cleared == clearTimeout(timers, inv.timeoutRef)
      id == FreshId(UsedIds) IN
  /\ CanUse("inv")
  /\ inv.scanMode
  /\ inv.selectedSlotId \in OpSlots
  /\ IF Includes(text, LF) \/ Includes(text, CR)
     THEN /\ timers' = cleared \cup
               {Timer(id, "inv", "autoSubmit", now + inv.scannerDelay,
                      inv.scanInput, inv.selectedSlotId, slots)}
          /\ inv' = [inv EXCEPT !.scanInput = text, !.timeoutRef = id]
     ELSE /\ timers' = cleared
          /\ inv' = [inv EXCEPT !.scanInput = text]
  /\ ops' = ops - 1
  /\ last' = [Ran("input", "inv") EXCEPT !.pending = text]
  /\ UNCHANGED <<slots, soldOutPacks, selectedSlot, now, savedDelay, alert, add, modal, test>>

\* handleSubmitScan() as seen by a render whose scanInput is text, whose
\* selectedSlotId is slotId and whose slots are snap; ts are the callbacks
\* pending when it starts
handleSubmitScan(ts, text, slotId, snap, via) ==
  LET numericOnly == CleanDigits(text)
      v == validateBarcode(numericOnly, slotId, slots, now)
      cleared == clearTimeout(ts, inv.timeoutRef)
      id1 == FreshId(UsedIds)
      id2 == FreshId(UsedIds \cup {id1})
      leave == triggerFabForNextSlot(exitScanMode(cleared, 0, id1), snap, id2) IN
  IF slotId = 0
  THEN /\ inv' = [inv EXCEPT !.timeoutRef = 0, !.error = "No slot selected"]
       /\ timers' = cleared
       /\ last' = Event("submit", "inv", via, text, Null, "noslot", slotId)
       /\ UNCHANGED <<slots, soldOutPacks>>
  ELSE IF numericOnly = Empty
  THEN /\ inv' = [inv EXCEPT !.timeoutRef = 0, !.error = "No numeric data detected in scan"]
       /\ timers' = cleared
       /\ last' = Event("submit", "inv", via, text, Null, "format", slotId)
       /\ UNCHANGED <<slots, soldOutPacks>>
  ELSE IF Len(numericOnly) < 14
  THEN /\ inv' = [inv EXCEPT !.timeoutRef = 0, !.error = "Barcode too short"]
       /\ timers' = cleared
       /\ last' = Event("submit", "inv", via, text, Null, "format", slotId)
       /\ UNCHANGED <<slots, soldOutPacks>>
  ELSE IF ~v.isValid /\ v.requiresConfirmation /\ Truthy(v.previousGamepack)
  THEN /\ slots' = updateSlotIn(markAsSoldOutSlots(slots, slotId), slotId, numericOnly, now)
       /\ soldOutPacks' = markAsSoldOutPacks(slots, soldOutPacks, slotId, now)
       /\ inv' = [inv EXCEPT !.timeoutRef = 0]
       /\ timers' = leave
       /\ last' = Event("submit", "inv", via, text, numericOnly, "confirm", slotId)
  ELSE IF ~v.isValid
  THEN /\ inv' = [inv EXCEPT !.timeoutRef = 0, !.error = v.message]
       /\ timers' = cleared
       /\ last' = Event("submit", "inv", via, text, numericOnly, "reject", slotId)
       /\ UNCHANGED <<slots, soldOutPacks>>
  ELSE /\ slots' = updateSlotIn(slots, slotId, numericOnly, now)
       /\ inv' = [inv EXCEPT !.timeoutRef = 0]
       /\ timers' = leave
       /\ last' = Event("submit", "inv", via, text, numericOnly, "accept", slotId)
       /\ UNCHANGED soldOutPacks

\* the Submit button
InvSubmitPress ==
  /\ CanUse("inv")
  /\ inv.scanMode
  /\ handleSubmitScan(timers, inv.scanInput, inv.selectedSlotId, slots, "manual")
  /\ ops' = ops - 1
  /\ UNCHANGED <<selectedSlot, now, savedDelay, alert, add, modal, test>>

\* the auto-submit timer fires
InvAutoSubmit ==
  \E t \in timers :
    /\ t.owner = "inv" /\ t.kind = "autoSubmit" /\ Due(t)
    /\ alert = NoAlert
    /\ handleSubmitScan(timers \ {t}, t.text, t.slotId, t.snap, "timer")
    /\ UNCHANGED <<selectedSlot, now, savedDelay, alert, add, modal, test, ops>>

\* the closing animation completes
InvExitAnimDone ==
  \E t \in timers :
    /\ t.owner = "inv" /\ t.kind = "exitAnim" /\ Due(t)
    /\ timers' = timers \ {t}
    /\ inv' = [inv EXCEPT !.scanMode = FALSE, !.selectedSlotId = 0,
                          !.scanInput = Empty, !.error = ""]
    /\ selectedSlot' = 0
    /\ last' = Ran("exitAnimDone", "inv")
    /\ UNCHANGED <<slots, soldOutPacks, now, savedDelay, alert, add, modal, test, ops>>

\* the callback of triggerFabForNextSlot selects the slot it was given
InvNextSlot ==
  \E t \in timers :
    /\ t.owner = "inv" /\ t.kind = "nextSlot" /\ Due(t)
    /\ timers' = timers \ {t}
    /\ inv' = [enterScanMode(inv) EXCEPT !.selectedSlotId = t.slotId]
    /\ selectedSlot' = t.slotId
    /\ last' = [Ran("nextSlot", "inv") EXCEPT !.slotId = t.slotId]
    /\ UNCHANGED <<slots, soldOutPacks, now, savedDelay, alert, add, modal, test, ops>>

InvHandleClearInput ==
  /\ CanUse("inv")
  /\ inv.scanMode
  /\ inv.scanInput # Empty
  /\ inv' = [inv EXCEPT !.scanInput = Empty, !.error = ""]
  /\ ops' = ops - 1
  /\ last' = Ran("clearInput", "inv")
  /\ UNCHANGED <<slots, soldOutPacks, selectedSlot, now, timers, savedDelay, alert, add, modal, test>>

\* the X button of the scan panel
InvClosePress ==
  /\ CanUse("inv")
  /\ inv.scanMode
  /\ timers' = exitScanMode(timers, inv.timeoutRef, FreshId(UsedIds))
  /\ inv' = [inv EXCEPT !.timeoutRef = 0]
  /\ ops' = ops - 1
  /\ last' = Ran("exitScanMode", "inv")
  /\ UNCHANGED <<slots, soldOutPacks, selectedSlot, now, savedDelay, alert, add, modal, test>>

\* the Empty button of the scan panel
handleMarkEmpty ==
  LET id1 == FreshId(UsedIds)
      id2 == FreshId(UsedIds \cup {id1}) IN
  /\ CanUse("inv")
  /\ inv.scanMode
  /\ inv.selectedSlotId \in OpSlots
  /\ slots' = markAsEmptyIn(slots, inv.selectedSlotId, now)
  /\ timers' = triggerFabForNextSlot(exitScanMode(timers, inv.timeoutRef, id1), slots, id2)
  /\ inv' = [inv EXCEPT !.timeoutRef = 0]
  /\ ops' = ops - 1
  /\ last' = [Ran("markEmpty", "inv") EXCEPT !.slotId = inv.selectedSlotId]
  /\ UNCHANGED <<soldOutPacks, selectedSlot, now, savedDelay, alert, add, modal, test>>

\* the deferred triggerFabForNextSlot of the two list actions
listTrigger(ts, snap, id) ==
  ts \cup {Timer(id, "inv", "listTrigger", now + ListTriggerMs, Empty, 0, snap)}

\* the list's clear action (the list hides its actions in scan mode)
handleClearSlot(id) ==
  /\ CanUse("inv")
  /\ ~inv.scanMode
  /\ slots' = clearSlotIn(slots, id)
  /\ timers' = listTrigger(timers, slots, FreshId(UsedIds))
  /\ ops' = ops - 1
  /\ last' = [Ran("clearSlot", "inv") EXCEPT !.slotId = id]
  /\ UNCHANGED <<soldOutPacks, selectedSlot, now, savedDelay, alert, inv, add, modal, test>>

handleMarkEmptyFromList(id) ==
  /\ CanUse("inv")
  /\ ~inv.scanMode
  /\ slots' = markAsEmptyIn(slots, id, now)
  /\ timers' = listTrigger(timers, slots, FreshId(UsedIds))
  /\ ops' = ops - 1
  /\ last' = [Ran("markEmpty", "inv") EXCEPT !.slotId = id]
  /\ UNCHANGED <<soldOutPacks, selectedSlot, now, savedDelay, alert, inv, add, modal, test>>

InvListTrigger ==
  \E t \in timers :
    /\ t.owner = "inv" /\ t.kind = "listTrigger" /\ Due(t)
    /\ timers' = triggerFabForNextSlot(timers \ {t}, t.snap, t.id)
    /\ last' = Ran("listTrigger", "inv")
    /\ UNCHANGED <<slots, soldOutPacks, selectedSlot, now, savedDelay, alert, inv, add, modal, test, ops>>

(***************************************************************************)
(* The clock                                                               *)
(***************************************************************************)
ScanInProgress ==
  \/ inv.scanInput # Empty \/ add.buffer # Empty
  \/ modal.rawInput # Empty \/ test.buffer # Empty

\* time passes until the next pending callback is due
Advance ==
  /\ timers # {}
  /\ \A t \in timers : t.fireAt > now
  /\ \E t \in timers :
       /\ \A u \in timers : t.fireAt <= u.fireAt
       /\ now' = t.fireAt
  /\ UNCHANGED <<slots, soldOutPacks, selectedSlot, timers, savedDelay, alert, inv, add, modal, test, ops, last>>

\* the scanner pauses between two fragments of one scan
Gap ==
  /\ ScanInProgress
  /\ ops > 0
  /\ alert = NoAlert
  /\ \A t \in timers : t.fireAt >= now + GapMs
  /\ now' = now + GapMs
  /\ ops' = ops - 1
  /\ UNCHANGED <<slots, soldOutPacks, selectedSlot, timers, savedDelay, alert, inv, add, modal, test, last>>

\* the night passes
NextDay ==
  /\ Mounted
  /\ timers = {}
  /\ alert = NoAlert
  /\ DateOf(now) < MaxDay
  /\ now' = (DateOf(now) + 1) * MsPerDay
  /\ UNCHANGED <<slots, soldOutPacks, selectedSlot, timers, savedDelay, alert, inv, add, modal, test, ops, last>>

(***************************************************************************)
(* AddScreen                                                               *)
(***************************************************************************)
\* parseInt(text, 10) of a text of digits; -1 stands for NaN
RECURSIVE ParseDigits(_, _)
ParseDigits(s, acc) ==
  IF s = Empty \/ ~IsDigit(Head(s)) THEN acc
  ELSE ParseDigits(Tail(s), 10 * acc + (Head(s) - 48))

parseInt(s) == IF s = Empty \/ ~IsDigit(Head(s)) THEN -1 ELSE ParseDigits(s, 0)

\* the text of a slot number below 100, as the operator types it
SlotText(n) == IF n < 10 THEN Digits(<<n>>) ELSE Digits(<<n \div 10, n % 10>>)

\* the completion test of the buffering screens
BufferComplete(buffer) ==
  \/ Includes(buffer, LF)
  \/ Includes(buffer, CR)
  \/ analyzeRawBarcode(buffer).cleanedLength >= 24
  \/ Len(buffer) >= 30

AddLoadSettings ==
  /\ Mounted /\ AddIdle
  /\ add.scannerDelay # getScannerDelay
  /\ add' = [add EXCEPT !.scannerDelay = getScannerDelay]
  /\ last' = Ran("loadSettings", "add")
  /\ UNCHANGED <<slots, soldOutPacks, selectedSlot, now, timers, savedDelay, alert, inv, modal, test, ops>>

handleSlotChange(text) ==
  /\ CanUse("add")
  /\ add.slotNumber # text
  /\ add' = [add EXCEPT !.slotNumber = text]
  /\ ops' = ops - 1
  /\ last' = Ran("slotChange", "add")
  /\ UNCHANGED <<slots, soldOutPacks, selectedSlot, now, timers, savedDelay, alert, inv, modal, test>>

\* onChangeText of the barcode input: text is the field's whole new content,
\* which the handler appends to the buffer.  The callback it schedules calls
\* the handleSubmit of this render, which sees this render's slotNumber.
handleBarcodeChange(frag) ==
  LET text == add.barcode \o frag
      buffer == add.buffer \o text
      cleared == clearTimeout(timers, add.timeoutRef)
      id == FreshId(UsedIds) IN
  /\ CanUse("add")
  /\ IF BufferComplete(buffer)
     THEN /\ timers' = cleared \cup
               {Timer(id, "add", "autoSubmit", now + add.scannerDelay,
                      add.slotNumber, 0, << >>)}
          /\ add' = [add EXCEPT !.barcode = text, !.buffer = buffer, !.timeoutRef = id]
     ELSE /\ timers' = cleared
          /\ add' = [add EXCEPT !.barcode = text, !.buffer = buffer]
  /\ ops' = ops - 1
  /\ last' = [Ran("input", "add") EXCEPT !.pending = buffer]
  /\ UNCHANGED <<slots, soldOutPacks, selectedSlot, now, savedDelay, alert, inv, modal, test>>

\* a validateAndSubmit that stores the barcode it rejects
validateAndStore(st, cleanedBarcode, slotText, via, pending) ==
  LET slotId == parseInt(slotText)
      v == validateBarcode(cleanedBarcode, slotId, slots, now) IN
  IF slotId = -1 \/ slotId < 1 \/ slotId > 20
  THEN /\ add' = [st EXCEPT !.error = "Please enter a valid slot number (1-20)"]
       /\ last' = Event("submit", "add", via, pending, Null, "noslot", 0)
       /\ alert' = NoAlert
       /\ UNCHANGED <<slots, soldOutPacks>>
  ELSE IF ~v.isValid /\ v.requiresConfirmation /\ Truthy(v.previousGamepack)
  THEN /\ alert' = Alert("confirm", "add", slotId, slotText, cleanedBarcode)
       /\ add' = st
       /\ last' = Event("submit", "add", via, pending, cleanedBarcode, "confirm", slotId)
       /\ UNCHANGED <<slots, soldOutPacks>>
  ELSE /\ slots' = updateSlotIn(slots, slotId, cleanedBarcode, now)
       /\ add' = [st EXCEPT !.barcode = Empty, !.slotNumber = Empty, !.buffer = Empty]
       /\ last' = Event("submit", "add", via, pending, cleanedBarcode,
                        IF v.isValid THEN "accept" ELSE "reject", slotId)
       /\ alert' = NoAlert
       /\ UNCHANGED soldOutPacks

\* validateAndSubmit(cleanedBarcode) of a render whose slotNumber is slotText;
\* st is the component state it starts from
validateAndSubmit(st, cleanedBarcode, slotText, via, pending) ==
  LET slotId == parseInt(slotText)
      v == validateBarcode(cleanedBarcode, slotId, slots, now) IN
  IF slotId = -1 \/ slotId < 1 \/ slotId > 20
  THEN /\ add' = [st EXCEPT !.error = "Please enter a valid slot number (1-20)"]
       /\ last' = Event("submit", "add", via, pending, Null, "noslot", 0)
       /\ alert' = NoAlert
       /\ UNCHANGED <<slots, soldOutPacks>>
  ELSE IF ~v.isValid /\ v.requiresConfirmation /\ Truthy(v.previousGamepack)
  THEN /\ alert' = Alert("confirm", "add", slotId, slotText, cleanedBarcode)
       /\ add' = st
       /\ last' = Event("submit", "add", via, pending, cleanedBarcode, "confirm", slotId)
       /\ UNCHANGED <<slots, soldOutPacks>>
  ELSE IF ~v.isValid
  THEN /\ add' = [st EXCEPT !.error = v.message, !.buffer = Empty, !.barcode = Empty]
       /\ last' = Event("submit", "add", via, pending, cleanedBarcode, "reject", slotId)
       /\ alert' = NoAlert
       /\ UNCHANGED <<slots, soldOutPacks>>
  ELSE /\ slots' = updateSlotIn(slots, slotId, cleanedBarcode, now)
       /\ add' = [st EXCEPT !.barcode = Empty, !.slotNumber = Empty, !.buffer = Empty]
       /\ last' = Event("submit", "add", via, pending, cleanedBarcode, "accept", slotId)
       /\ alert' = NoAlert
       /\ UNCHANGED soldOutPacks

\* handleSubmit() of a render whose slotNumber is slotText
AddHandleSubmit(ts, slotText, via) ==
  LET st == [add EXCEPT !.timeoutRef = 0, !.error = ""]
      cleanedBarcode == analyzeRawBarcode(add.buffer).cleanedBarcode IN
  /\ timers' = clearTimeout(ts, add.timeoutRef)
  /\ IF Trim(add.buffer) = Empty
     THEN /\ add' = [st EXCEPT !.error = "Please enter a barcode"]
          /\ last' = Event("submit", "add", via, add.buffer, Null, "format", 0)
          /\ UNCHANGED <<slots, soldOutPacks, alert>>
     ELSE IF Len(cleanedBarcode) < 14
     THEN /\ add' = [st EXCEPT !.error = "Barcode too short"]
          /\ last' = Event("submit", "add", via, add.buffer, Null, "format", 0)
          /\ UNCHANGED <<slots, soldOutPacks, alert>>
     ELSE IF Len(cleanedBarcode) < 24
     THEN /\ alert' = Alert("incomplete", "add", 0, slotText, cleanedBarcode)
          /\ add' = st
          /\ last' = Event("submit", "add", via, add.buffer, Null, "incomplete", 0)
          /\ UNCHANGED <<slots, soldOutPacks>>
     ELSE validateAndSubmit(st, cleanedBarcode, slotText, via, add.buffer)

\* the Add Ticket Pack button
AddSubmitPress ==
  /\ CanUse("add")
  /\ AddHandleSubmit(timers, add.slotNumber, "manual")
  /\ ops' = ops - 1
  /\ UNCHANGED <<selectedSlot, now, savedDelay, inv, modal, test>>

\* the auto-submit timer fires
AddAutoSubmit ==
  \E t \in timers :
    /\ t.owner = "add" /\ t.kind = "autoSubmit" /\ Due(t)
    /\ alert = NoAlert
    /\ AddHandleSubmit(timers \ {t}, t.text, "timer")
    /\ UNCHANGED <<selectedSlot, now, savedDelay, inv, modal, test, ops>>

\* Incomplete Barcode dialog: Cancel
AddIncompleteCancel ==
  /\ CanAnswer("incomplete", "add")
  /\ alert' = NoAlert
  /\ add' = [add EXCEPT !.error = "Scan canceled. Please try again for complete barcode.",
                        !.buffer = Empty, !.barcode = Empty]
  /\ ops' = ops - 1
  /\ last' = Ran("incompleteCancel", "add")
  /\ UNCHANGED <<slots, soldOutPacks, selectedSlot, now, timers, savedDelay, inv, modal, test>>

\* Incomplete Barcode dialog: Continue
AddIncompleteContinue ==
  /\ CanAnswer("incomplete", "add")
  /\ validateAndSubmit(add, alert.barcode, alert.slotText, "continue", add.buffer)
  /\ ops' = ops - 1
  /\ UNCHANGED <<selectedSlot, now, timers, savedDelay, inv, modal, test>>

\* Confirm Previous Pack Status dialog: No
AddConfirmNo ==
  /\ CanAnswer("confirm", "add")
  /\ alert' = NoAlert
  /\ add' = [add EXCEPT !.error = "Previous pack must be sold out before adding a new pack",
                        !.buffer = Empty, !.barcode = Empty]
  /\ ops' = ops - 1
  /\ last' = [Ran("confirmNo", "add") EXCEPT !.slotId = alert.slotId, !.identifier = alert.barcode]
  /\ UNCHANGED <<slots, soldOutPacks, selectedSlot, now, timers, savedDelay, inv, modal, test>>

\* Confirm Previous Pack Status dialog: Yes
AddConfirmYes ==
  /\ CanAnswer("confirm", "add")
  /\ alert' = NoAlert
  /\ slots' = updateSlotIn(markAsSoldOutSlots(slots, alert.slotId), alert.slotId, alert.barcode, now)
  /\ soldOutPacks' = markAsSoldOutPacks(slots, soldOutPacks, alert.slotId, now)
  /\ add' = [add EXCEPT !.barcode = Empty, !.slotNumber = Empty, !.buffer = Empty]
  /\ ops' = ops - 1
  /\ last' = [Ran("confirmYes", "add") EXCEPT !.slotId = alert.slotId, !.identifier = alert.barcode]
  /\ UNCHANGED <<selectedSlot, now, timers, savedDelay, inv, modal, test>>

AddHandleClearInput ==
  /\ CanUse("add")
  /\ add.barcode # Empty \/ add.buffer # Empty \/ add.error # ""
  /\ add' = [add EXCEPT !.buffer = Empty, !.barcode = Empty, !.error = ""]
  /\ ops' = ops - 1
  /\ last' = Ran("clearInput", "add")
  /\ UNCHANGED <<slots, soldOutPacks, selectedSlot, now, timers, savedDelay, alert, inv, modal, test>>

(***************************************************************************)
(* ScannerModal                                                            *)
(***************************************************************************)
ModalLoadSettings ==
  /\ Mounted /\ ModalIdle /\ ~modal.visible
  /\ modal.scannerDelay # getScannerDelay
  /\ modal' = [modal EXCEPT !.scannerDelay = getScannerDelay]
  /\ last' = Ran("loadSettings", "modal")
  /\ UNCHANGED <<slots, soldOutPacks, selectedSlot, now, timers, savedDelay, alert, inv, add, test, ops>>

\* the parent shows the modal for a slot; the effect on `visible` resets the
\* input and cancels a pending auto-submit
ModalOpen(id) ==
  /\ CanUse("modal")
  /\ ~modal.visible
  /\ modal' = [modal EXCEPT !.visible = TRUE, !.slotId = id, !.rawInput = Empty, !.error = ""]
  /\ timers' = clearTimeout(timers, modal.timeoutRef)
  /\ ops' = ops - 1
  /\ last' = [Ran("open", "modal") EXCEPT !.slotId = id]
  /\ UNCHANGED <<slots, soldOutPacks, selectedSlot, now, savedDelay, alert, inv, add, test>>

\* onDismiss(): the parent hides the modal; the effect's cleanup cancels a
\* pending auto-submit
onDismiss(st, ts) ==
  /\ modal' = [st EXCEPT !.visible = FALSE]
  /\ timers' = clearTimeout(ts, st.timeoutRef)

\* the Cancel button
ModalCancelPress ==
  /\ CanUse("modal")
  /\ modal.visible
  /\ onDismiss(modal, timers)
  /\ ops' = ops - 1
  /\ last' = Ran("dismiss", "modal")
  /\ UNCHANGED <<slots, soldOutPacks, selectedSlot, now, savedDelay, alert, inv, add, test>>

\* onChangeText of the modal's input: text is the field's whole new content.
\* The callback it schedules calls the handleSubmit of the render that created
\* this handler, which sees that render's rawInput and slotId.
handleInputChange(frag) ==
  LET text == modal.rawInput \o frag
      cleared == clearTimeout(timers, modal.timeoutRef)
      id == FreshId(UsedIds) IN
  /\ CanUse("modal")
  /\ modal.visible
  /\ IF Includes(text, LF) \/ Includes(text, CR)
     THEN /\ timers' = cleared \cup
               {Timer(id, "modal", "autoSubmit", now + modal.scannerDelay,
                      modal.rawInput, modal.slotId, << >>)}
          /\ modal' = [modal EXCEPT !.rawInput = text, !.timeoutRef = id]
     ELSE /\ timers' = cleared
          /\ modal' = [modal EXCEPT !.rawInput = text]
  /\ ops' = ops - 1
  /\ last' = [Ran("input", "modal") EXCEPT !.pending = text]
  /\ UNCHANGED <<slots, soldOutPacks, selectedSlot, now, savedDelay, alert, inv, add, test>>

\* handleSubmit() of a render whose rawInput is text and whose slotId is slotId
ModalHandleSubmit(ts, text, slotId, via) ==
  LET numericOnly == CleanDigits(text)
      v == validateBarcode(numericOnly, slotId, slots, now)
      st == [modal EXCEPT !.timeoutRef = 0]
      cleared == clearTimeout(ts, modal.timeoutRef) IN
  IF slotId = 0
  THEN /\ modal' = [st EXCEPT !.error = "No slot selected"]
       /\ timers' = cleared
       /\ last' = Event("submit", "modal", via, text, Null, "noslot", slotId)
       /\ UNCHANGED <<slots, soldOutPacks, alert>>
  ELSE IF numericOnly = Empty
  THEN /\ modal' = [st EXCEPT !.error = "No numeric data detected in scan"]
       /\ timers' = cleared
       /\ last' = Event("submit", "modal", via, text, Null, "format", slotId)
       /\ UNCHANGED <<slots, soldOutPacks, alert>>
  ELSE IF Len(numericOnly) < 14
  THEN /\ modal' = [st EXCEPT !.error = "Barcode too short"]
       /\ timers' = cleared
       /\ last' = Event("submit", "modal", via, text, Null, "format", slotId)
       /\ UNCHANGED <<slots, soldOutPacks, alert>>
  ELSE IF ~v.isValid /\ v.requiresConfirmation /\ Truthy(v.previousGamepack)
  THEN /\ alert' = Alert("confirm", "modal", slotId, Empty, numericOnly)
       /\ modal' = st
       /\ timers' = cleared
       /\ last' = Event("submit", "modal", via, text, numericOnly, "confirm", slotId)
       /\ UNCHANGED <<slots, soldOutPacks>>
  ELSE IF ~v.isValid
  THEN /\ modal' = [st EXCEPT !.error = v.message]
       /\ timers' = cleared
       /\ last' = Event("submit", "modal", via, text, numericOnly, "reject", slotId)
       /\ UNCHANGED <<slots, soldOutPacks, alert>>
  ELSE /\ slots' = updateSlotIn(slots, slotId, numericOnly, now)
       /\ onDismiss(st, cleared)
       /\ last' = Event("submit", "modal", via, text, numericOnly, "accept", slotId)
       /\ UNCHANGED <<soldOutPacks, alert>>

\* the Submit button
ModalSubmitPress ==
  /\ CanUse("modal")
  /\ modal.visible
  /\ ModalHandleSubmit(timers, modal.rawInput, modal.slotId, "manual")
  /\ ops' = ops - 1
  /\ UNCHANGED <<selectedSlot, now, savedDelay, inv, add, test>>

\* the auto-submit timer fires
ModalAutoSubmit ==
  \E t \in timers :
    /\ t.owner = "modal" /\ t.kind = "autoSubmit" /\ Due(t)
    /\ alert = NoAlert
    /\ ModalHandleSubmit(timers \ {t}, t.text, t.slotId, "timer")
    /\ UNCHANGED <<selectedSlot, now, savedDelay, inv, add, test, ops>>

\* Confirm Previous Pack Status dialog: No
ModalConfirmNo ==
  /\ CanAnswer("confirm", "modal")
  /\ alert' = NoAlert
  /\ modal' = [modal EXCEPT !.error = "Previous pack must be sold out before adding a new pack"]
  /\ ops' = ops - 1
  /\ last' = [Ran("confirmNo", "modal") EXCEPT !.slotId = alert.slotId, !.identifier = alert.barcode]
  /\ UNCHANGED <<slots, soldOutPacks, selectedSlot, now, timers, savedDelay, inv, add, test>>

\* Confirm Previous Pack Status dialog: Yes
ModalConfirmYes ==
  /\ CanAnswer("confirm", "modal")
  /\ alert' = NoAlert
  /\ slots' = updateSlotIn(markAsSoldOutSlots(slots, alert.slotId), alert.slotId, alert.barcode, now)
  /\ soldOutPacks' = markAsSoldOutPacks(slots, soldOutPacks, alert.slotId, now)
  /\ onDismiss(modal, timers)
  /\ ops' = ops - 1
  /\ last' = [Ran("confirmYes", "modal") EXCEPT !.slotId = alert.slotId, !.identifier = alert.barcode]
  /\ UNCHANGED <<selectedSlot, now, savedDelay, inv, add, test>>

\* the Mark Empty button: a dialog asks first
handleMarkAsEmpty ==
  /\ CanUse("modal")
  /\ modal.visible
  /\ IF modal.slotId = 0
     THEN /\ modal' = [modal EXCEPT !.error = "No slot selected"]
          /\ UNCHANGED alert
     ELSE /\ alert' = Alert("markEmpty", "modal", modal.slotId, Empty, Null)
          /\ UNCHANGED modal
  /\ ops' = ops - 1
  /\ last' = Ran("markAsEmptyPress", "modal")
  /\ UNCHANGED <<slots, soldOutPacks, selectedSlot, now, timers, savedDelay, inv, add, test>>

ModalMarkEmptyCancel ==
  /\ CanAnswer("markEmpty", "modal")
  /\ alert' = NoAlert
  /\ ops' = ops - 1
  /\ last' = Ran("markEmptyCancel", "modal")
  /\ UNCHANGED <<slots, soldOutPacks, selectedSlot, now, timers, savedDelay, inv, add, modal, test>>

ModalMarkEmptyYes ==
  /\ CanAnswer("markEmpty", "modal")
  /\ alert' = NoAlert
  /\ slots' = markAsEmptyIn(slots, alert.slotId, now)
  /\ onDismiss(modal, timers)
  /\ ops' = ops - 1
  /\ last' = [Ran("markEmpty", "modal") EXCEPT !.slotId = alert.slotId]
  /\ UNCHANGED <<soldOutPacks, selectedSlot, now, savedDelay, inv, add, test>>

ModalHandleClearInput ==
  /\ CanUse("modal")
  /\ modal.visible
  /\ modal.rawInput # Empty \/ modal.error # ""
  /\ modal' = [modal EXCEPT !.rawInput = Empty, !.error = ""]
  /\ ops' = ops - 1
  /\ last' = Ran("clearInput", "modal")
  /\ UNCHANGED <<slots, soldOutPacks, selectedSlot, now, timers, savedDelay, alert, inv, add, test>>

(***************************************************************************)
(* ScannerTestScreen                                                       *)
(***************************************************************************)
HistoryLimit == 10

TestLoadSettings ==
  /\ Mounted /\ TestIdle
  /\ savedDelay # 0
  /\ test.scannerDelay # savedDelay
  /\ test' = [test EXCEPT !.scannerDelay = savedDelay]
  /\ last' = Ran("loadSettings", "test")
  /\ UNCHANGED <<slots, soldOutPacks, selectedSlot, now, timers, savedDelay, alert, inv, add, modal, ops>>

\* onChangeText of the test input: text is the field's whole new content,
\* which the handler appends to the buffer
TestHandleInputChange(frag) ==
  LET text == test.input \o frag
      buffer == test.buffer \o text
      analysis == analyzeRawBarcode(buffer)
      cleared == clearTimeout(timers, test.timeoutRef)
      id == FreshId(UsedIds)
      st == [test EXCEPT !.input = text, !.buffer = buffer,
                         !.debugInfo = <<analysis.rawLength, analysis.cleanedLength>>] IN
  /\ CanUse("test")
  /\ IF BufferComplete(buffer)
     THEN /\ timers' = cleared \cup
               {Timer(id, "test", "autoSubmit", now + test.scannerDelay, Empty, 0, << >>)}
          /\ test' = [st EXCEPT !.timeoutRef = id]
     ELSE /\ timers' = cleared
          /\ test' = st
  /\ ops' = ops - 1
  /\ last' = [Ran("input", "test") EXCEPT !.pending = buffer]
  /\ UNCHANGED <<slots, soldOutPacks, selectedSlot, now, savedDelay, alert, inv, add, modal>>

TestHandleSubmit(ts, via) ==
  LET cleanedInput == analyzeRawBarcode(test.buffer).cleanedBarcode
      st == [test EXCEPT !.timeoutRef = 0, !.input = Empty, !.buffer = Empty] IN
  /\ timers' = clearTimeout(ts, test.timeoutRef)
  /\ IF Len(cleanedInput) > 0
     THEN test' = [st EXCEPT !.lastScan = cleanedInput,
                             !.scanHistory = SubSeq(<<cleanedInput>> \o test.scanHistory, 1,
                                                    Min(HistoryLimit, Len(test.scanHistory) + 1))]
     ELSE test' = st
  /\ last' = Event("submit", "test", via, test.buffer, cleanedInput, "recorded", 0)
  /\ UNCHANGED <<slots, soldOutPacks, alert>>

\* the Process Scan button
TestSubmitPress ==
  /\ CanUse("test")
  /\ TestHandleSubmit(timers, "manual")
  /\ ops' = ops - 1
  /\ UNCHANGED <<selectedSlot, now, savedDelay, inv, add, modal>>

\* the auto-submit timer fires
TestAutoSubmit ==
  \E t \in timers :
    /\ t.owner = "test" /\ t.kind = "autoSubmit" /\ Due(t)
    /\ alert = NoAlert
    /\ TestHandleSubmit(timers \ {t}, "timer")
    /\ UNCHANGED <<selectedSlot, now, savedDelay, inv, add, modal, ops>>

clearHistory ==
  /\ CanUse("test")
  /\ test.scanHistory # << >> \/ test.lastScan # Empty \/ test.debugInfo # << >>
  /\ test' = [test EXCEPT !.scanHistory = << >>, !.lastScan = Empty, !.debugInfo = << >>]
  /\ ops' = ops - 1
  /\ last' = Ran("clearHistory", "test")
  /\ UNCHANGED <<slots, soldOutPacks, selectedSlot, now, timers, savedDelay, alert, inv, add, modal>>

(***************************************************************************)
(* The screens' next-state relations.  The scanner delivers a scan as a    *)
(* first fragment into an empty field, then further fragments until the    *)
(* field holds a terminator.                                               *)
(***************************************************************************)
Terminated(field) == Includes(field, LF) \/ Includes(field, CR)

AddNext(starts, conts) ==
  \/ \E n \in OpSlots : add.barcode = Empty /\ handleSlotChange(SlotText(n))
  \/ \E f \in starts : add.barcode = Empty /\ handleBarcodeChange(f)
  \/ \E f \in conts : add.barcode # Empty /\ ~Terminated(add.barcode) /\ handleBarcodeChange(f)
  \/ AddSubmitPress
  \/ AddAutoSubmit
  \/ AddIncompleteCancel
  \/ AddIncompleteContinue
  \/ AddConfirmNo
  \/ AddConfirmYes
  \/ AddHandleClearInput

InvNext(starts, conts) ==
  \/ \E id \in OpSlots : handleSlotPress(id)
  \/ fabPress
  \/ \E f \in starts : inv.scanInput = Empty /\ handleScanInputChange(f)
  \/ \E f \in conts : inv.scanInput # Empty /\ ~Terminated(inv.scanInput) /\ handleScanInputChange(f)
  \/ InvSubmitPress
  \/ InvAutoSubmit
  \/ InvExitAnimDone
  \/ InvNextSlot
  \/ InvHandleClearInput
  \/ InvClosePress
  \/ handleMarkEmpty
  \/ \E id \in OpSlots : handleClearSlot(id)
  \/ \E id \in OpSlots : handleMarkEmptyFromList(id)
  \/ InvListTrigger

ModalNext(starts, conts) ==
  \/ \E id \in OpSlots : ModalOpen(id)
  \/ ModalCancelPress
  \/ \E f \in starts : modal.rawInput = Empty /\ handleInputChange(f)
  \/ \E f \in conts : modal.rawInput # Empty /\ ~Terminated(modal.rawInput) /\ handleInputChange(f)
  \/ ModalSubmitPress
  \/ ModalAutoSubmit
  \/ ModalConfirmNo
  \/ ModalConfirmYes
  \/ handleMarkAsEmpty
  \/ ModalMarkEmptyCancel
  \/ ModalMarkEmptyYes
  \/ ModalHandleClearInput

TestNext(starts, conts) ==
  \/ \E f \in starts : test.input = Empty /\ TestHandleInputChange(f)
  \/ \E f \in conts : test.input # Empty /\ ~Terminated(test.input) /\ TestHandleInputChange(f)
  \/ TestSubmitPress
  \/ TestAutoSubmit
  \/ clearHistory

(***************************************************************************)
(* Specifications                                                          *)
(***************************************************************************)
\* the add screen over a fresh install
Next ==
  \/ InvMount
  \/ AddNext({FrameA, FrameB, DigitsZero}, {<<LF>>})
  \/ Advance
  \/ NextDay

Spec == Init /\ [][Next]_vars

\* the inventory screen over a fresh install
InitInv == Boot({0}, InvOps)

NextInv ==
  \/ InvMount
  \/ InvNext({DigitsA, DigitsB}, {<<LF>>})
  \/ Advance
  \/ NextDay

SpecInv == InitInv /\ [][NextInv]_vars

\* the scan path of every screen, with or without a saved scanner delay
InitScan == Boot(Delays, ScanOps)

NextScan ==
  \/ InvMount
  \/ InvLoadSettings
  \/ AddLoadSettings
  \/ ModalLoadSettings
  \/ TestLoadSettings
  \/ \E id \in OpSlots : handleSlotPress(id)
  \/ \E f \in {FragHead, FrameA} : inv.scanInput = Empty /\ handleScanInputChange(f)
  \/ inv.scanInput # Empty /\ ~Terminated(inv.scanInput) /\ handleScanInputChange(FragTail)
  \/ InvSubmitPress
  \/ InvAutoSubmit
  \/ InvExitAnimDone
  \/ InvNextSlot
  \/ InvClosePress
  \/ \E n \in OpSlots : add.barcode = Empty /\ handleSlotChange(SlotText(n))
  \/ \E f \in {FragHead, FrameA} : add.barcode = Empty /\ handleBarcodeChange(f)
  \/ add.barcode # Empty /\ ~Terminated(add.barcode) /\ handleBarcodeChange(FragTail)
  \/ AddSubmitPress
  \/ AddAutoSubmit
  \/ AddIncompleteCancel
  \/ AddIncompleteContinue
  \/ \E id \in OpSlots : ModalOpen(id)
  \/ ModalCancelPress
  \/ \E f \in {FragHead, FrameA} : modal.rawInput = Empty /\ handleInputChange(f)
  \/ modal.rawInput # Empty /\ ~Terminated(modal.rawInput) /\ handleInputChange(FragTail)
  \/ ModalSubmitPress
  \/ ModalAutoSubmit
  \/ TestNext({FragHead, FrameA}, {FragTail})
  \/ Advance
  \/ Gap

SpecScan == InitScan /\ [][NextScan]_vars

\* the scanner modal over a fresh install
ModalOps == 7       \* gestures of the operator on the scanner modal

InitModal == Boot({0}, ModalOps)

NextModal ==
  \/ InvMount
  \/ ModalNext({DigitsA, DigitsB}, {<<LF>>})
  \/ Advance
  \/ NextDay

SpecModal == InitModal /\ [][NextModal]_vars

\* the add screen with its timers scheduled: the event loop lets time reach
\* the next pending callback and then runs the callback that is due
LiveOps == 5

InitLive == Boot({0}, LiveOps)

NextLive ==
  \/ InvMount
  \/ AddNext({FrameA, FrameB, DigitsZero}, {<<LF>>})
  \/ Advance

SpecLive == InitLive /\ [][NextLive]_vars /\ WF_vars(Advance) /\ WF_vars(AddAutoSubmit)

\* the operator walks the slots the navigator selects: the FAB, a scan into the
\* selected slot (fragments, then the timer or the submit key) or Mark Empty
WalkOps == 6

InitWalk == Boot({0}, WalkOps)

NextWalk ==
  \/ InvMount
  \/ fabPress
  \/ \E f \in {DigitsA, DigitsB} : inv.scanInput = Empty /\ handleScanInputChange(f)
  \/ inv.scanInput # Empty /\ ~Terminated(inv.scanInput) /\ handleScanInputChange(<<LF>>)
  \/ InvSubmitPress
  \/ InvAutoSubmit
  \/ InvExitAnimDone
  \/ InvNextSlot
  \/ handleMarkEmpty
  \/ Advance

SpecWalk == InitWalk /\ [][NextWalk]_vars

(***************************************************************************)
(* The pure functions on their own: extractBarcodeIdentifier and           *)
(* validateBarcode applied to raw strings, slot ids and store snapshots    *)
(***************************************************************************)
MaxShort == 2       \* every string over PureAlphabet up to this length is an input
MaxDigits == 27     \* digit runs of 0..MaxDigits digits are inputs

\* '1', '9', 'A', ' ', LF
PureAlphabet == {49, 57, 65, 32, LF}
ShortStrings == UNION {[1..n -> PureAlphabet] : n \in 0..MaxShort}

\* a run of n digits
Pattern(n, k) == [i \in 1..n |-> 48 + ((i * k) % 10)]
\* the run as a scanner sends it: a prefix character, CR LF at the end
Framed(s) == <<65>> \o s \o <<CR, LF>>
\* the run with "- " in its middle
Split(s) == Prefix(s, Len(s) \div 2) \o <<45, 32>> \o SubSeq(s, Len(s) \div 2 + 1, Len(s))
LongStrings ==
  UNION {{Pattern(n, k), Framed(Pattern(n, k)), Split(Pattern(n, k))} :
           n \in 0..MaxDigits, k \in {1, 3}}

Example26 == Digits(<<1,2,3,4,5,0,0,0,0,0,1,2,3,4,5,0,0,0,0,1,2,9,9,9,8,8>>)
Spaces14 == [i \in 1..14 |-> 32]
RawInputs ==
  ShortStrings \cup LongStrings \cup
  { Example26, FrameA, DigitsA, DigitsB, DigitsZero, Spaces14,
    Prefix(DigitsA, 13) \o <<32>>, Prefix(DigitsA, 13) \o <<65>>, <<32>> \o DigitsA }

\* slot ids: the operator's, and one no slot has
AnyIds == OpSlots \cup {NumSlots + 1}

\* store snapshots: fresh, slot 1 scanned, slot 1 marked empty, slot 1 sold out
PureStores ==
  { initialSlots,
    updateSlotIn(initialSlots, 1, DigitsA, 0),
    markAsEmptyIn(initialSlots, 1, 0),
    markAsSoldOutSlots(updateSlotIn(initialSlots, 1, DigitsA, 0), 1) }

\* history: a call of a function or store operation, its arguments and result
Call(op, input, slotId, result) ==
  [ op |-> op, pending |-> input, slotId |-> slotId, result |-> result, at |-> now ]

InitPure ==
  /\ slots \in PureStores
  /\ soldOutPacks = << >>
  /\ selectedSlot = 0
  /\ now = 0
  /\ timers = {}
  /\ savedDelay = 0
  /\ alert = NoAlert
  /\ inv = [ selectedSlotId |-> 0, scanMode |-> FALSE, scanInput |-> Empty,
             timeoutRef |-> 0, scannerDelay |-> DEFAULT_SCANNER_DELAY,
             error |-> "" ]
  /\ add = [ barcode |-> Empty, slotNumber |-> Empty, buffer |-> Empty,
             timeoutRef |-> 0, scannerDelay |-> DEFAULT_SCANNER_DELAY,
             error |-> "" ]
  /\ modal = [ visible |-> FALSE, slotId |-> 0, rawInput |-> Empty,
               timeoutRef |-> 0, scannerDelay |-> DEFAULT_SCANNER_DELAY,
               error |-> "" ]
  /\ test = [ input |-> Empty, buffer |-> Empty, timeoutRef |-> 0,
              scannerDelay |-> DEFAULT_SCANNER_DELAY, lastScan |-> Empty,
              scanHistory |-> << >>, debugInfo |-> << >> ]
  /\ ops = 0
  /\ \E raw \in RawInputs, id \in AnyIds : last = Call("input", raw, id, Null)

\* extractBarcodeIdentifier(rawInput)
PureExtract ==
  /\ last.op = "input"
  /\ last' = Call("extractBarcodeIdentifier", last.pending, last.slotId,
                  extractBarcodeIdentifier(last.pending))
  /\ UNCHANGED <<slots, soldOutPacks, selectedSlot, now, timers, savedDelay, alert, inv, add, modal, test, ops>>

\* extractBarcodeIdentifier applied to its own result
PureExtractAgain ==
  /\ last.op = "extractBarcodeIdentifier"
  /\ last' = Call("extractAgain", last.result, last.slotId,
                  extractBarcodeIdentifier(last.result))
  /\ UNCHANGED <<slots, soldOutPacks, selectedSlot, now, timers, savedDelay, alert, inv, add, modal, test, ops>>

\* validateBarcode(barcode, slotId): it reads the store and the clock, and
\* calls no set()
PureValidate ==
  /\ last.op = "input"
  /\ last' = Call("validateBarcode", last.pending, last.slotId,
                  validateBarcode(last.pending, last.slotId, slots, now))
  /\ UNCHANGED <<slots, soldOutPacks, selectedSlot, now, timers, savedDelay, alert, inv, add, modal, test, ops>>

NextPure ==
  \/ PureExtract
  \/ PureExtractAgain
  \/ PureValidate

SpecPure == InitPure /\ [][NextPure]_vars

(***************************************************************************)
(* The store on its own: initializeSlots first, as the inventory screen    *)
(* does when it mounts, then any sequence of its operations, with the      *)
(* validator reading it                                                    *)
(***************************************************************************)
StoreOps == 4       \* calls made on the store

\* barcodes handed to validateBarcode
StoreBarcodes == {DigitsA, DigitsB, DigitsZero}
\* barcodes handed to updateSlot: a real one, a sentinel one, and one shorter
\* than a gamepack number
UpdateBarcodes == {DigitsA, DigitsZero, FragHead}

StoreInitializeSlots ==
  /\ ops > 0
  /\ slots' = initialSlots
  /\ ops' = ops - 1
  /\ last' = Call("initializeSlots", Null, 0, Null)
  /\ UNCHANGED <<soldOutPacks, selectedSlot, now, timers, savedDelay, alert, inv, add, modal, test>>

StoreUpdateSlot ==
  /\ Mounted
  /\ ops > 0
  /\ \E id \in OpSlots, barcode \in UpdateBarcodes :
       /\ slots' = updateSlotIn(slots, id, barcode, now)
       /\ last' = Call("updateSlot", barcode, id, Null)
  /\ ops' = ops - 1
  /\ UNCHANGED <<soldOutPacks, selectedSlot, now, timers, savedDelay, alert, inv, add, modal, test>>

StoreClearSlot ==
  /\ Mounted
  /\ ops > 0
  /\ \E id \in OpSlots :
       /\ slots' = clearSlotIn(slots, id)
       /\ last' = Call("clearSlot", Null, id, Null)
  /\ ops' = ops - 1
  /\ UNCHANGED <<soldOutPacks, selectedSlot, now, timers, savedDelay, alert, inv, add, modal, test>>

StoreMarkAsEmpty ==
  /\ Mounted
  /\ ops > 0
  /\ \E id \in OpSlots :
       /\ slots' = markAsEmptyIn(slots, id, now)
       /\ last' = Call("markAsEmpty", Null, id, Null)
  /\ ops' = ops - 1
  /\ UNCHANGED <<soldOutPacks, selectedSlot, now, timers, savedDelay, alert, inv, add, modal, test>>

StoreMarkAsSoldOut ==
  /\ Mounted
  /\ ops > 0
  /\ \E id \in AnyIds :
       /\ slots' = markAsSoldOutSlots(slots, id)
       /\ soldOutPacks' = markAsSoldOutPacks(slots, soldOutPacks, id, now)
       /\ last' = Call("markAsSoldOut", Null, id, Null)
  /\ ops' = ops - 1
  /\ UNCHANGED <<selectedSlot, now, timers, savedDelay, alert, inv, add, modal, test>>

\* a validator that applies the consequence of its decision itself
validateAndApply(barcode, id) ==
  LET v == validateBarcode(barcode, id, slots, now) IN
  /\ slots' = IF v.isValid THEN updateSlotIn(slots, id, barcode, now) ELSE slots
  /\ last' = Call("validateBarcode", barcode, id, v)
  /\ UNCHANGED soldOutPacks

\* validateBarcode(barcode, slotId) on the store as it is, at the clock's time
validateOnStore(barcode, id) ==
  /\ last' = Call("validateBarcode", barcode, id, validateBarcode(barcode, id, slots, now))
  /\ UNCHANGED <<slots, soldOutPacks>>

StoreValidate ==
  /\ Mounted
  /\ ops > 0
  /\ \E id \in OpSlots, barcode \in StoreBarcodes : validateOnStore(barcode, id)
  /\ ops' = ops - 1
  /\ UNCHANGED <<selectedSlot, now, timers, savedDelay, alert, inv, add, modal, test>>

\* a millisecond passes after a call that read the clock
Tick ==
  /\ last.op \in {"updateSlot", "markAsEmpty", "markAsSoldOut", "validateBarcode"}
  /\ now = last.at
  /\ now' = now + 1
  /\ UNCHANGED <<slots, soldOutPacks, selectedSlot, timers, savedDelay, alert, inv, add, modal, test, ops, last>>

InitStore == Boot({0}, StoreOps)

NextStore ==
  \/ StoreInitializeSlots
  \/ StoreUpdateSlot
  \/ StoreClearSlot
  \/ StoreMarkAsEmpty
  \/ StoreMarkAsSoldOut
  \/ StoreValidate
  \/ Tick
  \/ NextDay

SpecStore == InitStore /\ [][NextStore]_vars

(***************************************************************************)
(* The navigator on its own: findNextAvailableSlot applied to slot         *)
(* collections of every mix of untouched, marked-empty, scanned and        *)
(* pending slots                                                           *)
(***************************************************************************)
NavHead == 3        \* the first NavHead slots take every mix of kinds

NavKinds == {"untouched", "markedEmpty", "scanned", "pending"}

\* slot i of a kind, as the store operations (and the type SlotStatus) make it
NavSlot(i, kind) ==
  CASE kind = "untouched" -> initialSlots[i]
    [] kind = "markedEmpty" -> markAsEmptyIn(initialSlots, i, 0)[i]
    [] kind = "scanned" -> updateSlotIn(initialSlots, i, DigitsA, 0)[i]
    [] kind = "pending" -> [initialSlots[i] EXCEPT !.status = "pending"]

NavStores ==
  {[i \in 1..NumSlots |-> NavSlot(i, IF i <= NavHead THEN head[i] ELSE rest)] :
     head \in [1..NavHead -> NavKinds], rest \in NavKinds}

InitNav ==
  /\ slots \in NavStores
  /\ soldOutPacks = << >>
  /\ selectedSlot = 0
  /\ now = 0
  /\ timers = {}
  /\ savedDelay = 0
  /\ alert = NoAlert
  /\ inv = [ selectedSlotId |-> 0, scanMode |-> FALSE, scanInput |-> Empty,
             timeoutRef |-> 0, scannerDelay |-> DEFAULT_SCANNER_DELAY,
             error |-> "" ]
  /\ add = [ barcode |-> Empty, slotNumber |-> Empty, buffer |-> Empty,
             timeoutRef |-> 0, scannerDelay |-> DEFAULT_SCANNER_DELAY,
             error |-> "" ]
  /\ modal = [ visible |-> FALSE, slotId |-> 0, rawInput |-> Empty,
               timeoutRef |-> 0, scannerDelay |-> DEFAULT_SCANNER_DELAY,
               error |-> "" ]
  /\ test = [ input |-> Empty, buffer |-> Empty, timeoutRef |-> 0,
              scannerDelay |-> DEFAULT_SCANNER_DELAY, lastScan |-> Empty,
              scanHistory |-> << >>, debugInfo |-> << >> ]
  /\ ops = 0
  /\ last = Call("input", Null, 0, Null)

\* findNextAvailableSlot() over the slots of the store
NavFind ==
  /\ last.op = "input"
  /\ last' = Call("findNextAvailableSlot", Null, 0, findNextAvailableSlot(slots))
  /\ UNCHANGED <<slots, soldOutPacks, selectedSlot, now, timers, savedDelay, alert, inv, add, modal, test, ops>>

NextNav == NavFind

SpecNav == InitNav /\ [][NextNav]_vars

(***************************************************************************)
(* Properties of the store and the validator                               *)
(***************************************************************************)
\* slot i holds a real gamepack scanned today that is not sold out
ActiveToday(ss, i, t) ==
  /\ Truthy(ss[i].gamepackNumber)
  /\ ss[i].gamepackNumber # SentinelGamepack
  /\ ss[i].timestamp # NoTime
  /\ DateOf(ss[i].timestamp) = DateOf(t)
  /\ ~ss[i].soldOut

\* the three decisions of the validator
IsAccept(v) == v.isValid
IsConfirm(v) == ~v.isValid /\ v.requiresConfirmation
IsReject(v) == ~v.isValid /\ ~v.requiresConfirmation

\* slot ids the properties range over: none, the operator's, an untouched one
SomeSlots == 0..(MaxSlot + 1)
\* identifiers the properties range over
RealIds == {DigitsA, FrameB}
SentinelIds == {DigitsZero, SentinelBarcode}
\* indexes of the slots the properties range over
SomeIdx == {i \in 1..Len(slots) : i <= MaxSlot + 1}
SomePads == {Digits(<<0,0,1>>), Digits(<<7,7,7>>)}

\* C1: no two distinct slots hold the same non-sentinel gamepack while both
\* are of today and not sold out
C1_NoActiveDuplicate ==
  \A i, j \in 1..Len(slots) :
    (i # j /\ ActiveToday(slots, i, now) /\ ActiveToday(slots, j, now))
      => slots[i].gamepackNumber # slots[j].gamepackNumber

\* C3: the identifier a flush hands to the validator (and stores when it is
\* accepted) is extractBarcodeIdentifier of the pending text, at most 14 digits
C3_FlushExtracts ==
  (last.op = "submit" /\ last.identifier # Null)
    => /\ last.identifier = extractBarcodeIdentifier(last.pending)
       /\ Len(last.identifier) <= 14

\* C6: on a slot holding a real gamepack G1, an all-digit identifier of 14 or
\* more digits with another real gamepack needs confirmation with
\* previousGamepack = G1, sold out or not, active elsewhere or not
C6_ConfirmationGating ==
  \A S \in SomeSlots, id \in RealIds :
    \A ss \in {slots, markAsSoldOutSlots(slots, S)} :
      LET k == FindSlot(ss, S)
          v == validateBarcode(id, S, ss, now) IN
      ( /\ k # 0
        /\ Truthy(ss[k].gamepackNumber)
        /\ ss[k].gamepackNumber # SentinelGamepack
        /\ AllDigits(id) /\ Len(id) >= 14
        /\ Prefix(id, 11) \notin {ss[k].gamepackNumber, SentinelGamepack} )
      => (IsConfirm(v) /\ v.previousGamepack = ss[k].gamepackNumber)

\* a scan needed confirmation although its gamepack is active in another slot
C6_Witness ==
  /\ last.op = "submit" /\ last.decision = "confirm"
  /\ Truthy(last.prev) /\ last.prev # Prefix(last.identifier, 11)
  /\ \E i \in 1..Len(slots) :
       /\ slots[i].id # last.slotId
       /\ ActiveToday(slots, i, now)
       /\ slots[i].gamepackNumber = Prefix(last.identifier, 11)

\* C7: with G active today in slot A and no previous real gamepack in slot
\* B # A, G + 3 digits on B is rejected, and accepted once A is sold out
C7_SoldOutFreesGamepack ==
  \A A, B \in SomeIdx, pad \in SomePads :
    ( /\ A # B
      /\ ActiveToday(slots, A, now)
      /\ getPreviousGamepack(slots, slots[B].id) = Null )
    => /\ IsReject(validateBarcode(slots[A].gamepackNumber \o pad, slots[B].id, slots, now))
       /\ IsAccept(validateBarcode(slots[A].gamepackNumber \o pad, slots[B].id,
                                   markAsSoldOutSlots(slots, slots[A].id), now))

\* C8: a slot that itself holds G (today, not sold out), no other slot holding
\* G, accepts G + 3 digits
C8_UniquenessSkipsTarget ==
  \A S \in SomeIdx, pad \in SomePads :
    ( /\ ActiveToday(slots, S, now)
      /\ \A i \in 1..Len(slots) :
           i # S => slots[i].gamepackNumber # slots[S].gamepackNumber )
    => IsAccept(validateBarcode(slots[S].gamepackNumber \o pad, slots[S].id, slots, now))

\* C9: an all-digit identifier of 14 or more digits that starts with the
\* sentinel gamepack is accepted for every slot id and every store
C9_SentinelExempt ==
  \A S \in SomeSlots, id \in SentinelIds :
    \A ss \in {slots, markAsSoldOutSlots(slots, S)} :
      (AllDigits(id) /\ Len(id) >= 14 /\ Prefix(id, 11) = SentinelGamepack)
        => validateBarcode(id, S, ss, now) = Result(TRUE, FALSE, Null, "")

\* a sentinel scan was accepted on a slot that held a real gamepack
C9_Witness ==
  /\ last.op = "submit" /\ last.decision = "accept"
  /\ Prefix(last.identifier, 11) = SentinelGamepack
  /\ Truthy(last.prev)
  /\ \E i \in 1..Len(slots) :
       slots[i].id = last.slotId /\ slots[i].barcode = last.identifier

(***************************************************************************)
(* Properties of the screens                                               *)
(***************************************************************************)
\* C2: a scan that needs confirmation does not change the store; the answer
\* no changes nothing, the answer yes marks the slot's pack sold out and then
\* stores the scanned identifier
C2_ConfirmBeforeMutation ==
  [][ /\ (last'.op = "submit" /\ last'.decision = "confirm")
           => UNCHANGED <<slots, soldOutPacks>>
      /\ (last' # last /\ last'.op = "confirmNo")
           => UNCHANGED <<slots, soldOutPacks>>
      /\ (last' # last /\ last'.op = "confirmYes")
           => /\ slots' = updateSlotIn(markAsSoldOutSlots(slots, last'.slotId),
                                       last'.slotId, last'.identifier, now)
              /\ soldOutPacks' = markAsSoldOutPacks(slots, soldOutPacks, last'.slotId, now)
    ]_vars

Screens == {"inv", "add", "modal", "test"}

\* the auto-submit timers pending for a screen's buffer
AutoSubmitOf(screen) == {t \in timers : t.owner = screen /\ t.kind = "autoSubmit"}

\* autoSubmitTimeoutRef.current of a screen
RefOf(screen) ==
  CASE screen = "inv" -> inv.timeoutRef
    [] screen = "add" -> add.timeoutRef
    [] screen = "modal" -> modal.timeoutRef
    [] screen = "test" -> test.timeoutRef

\* C4: each buffer has at most one auto-submit timer pending, the one its
\* handle refers to (a cancelled timer is not pending and cannot fire), and a
\* timer flush leaves no auto-submit timer of that buffer behind
C4_OneTimerPerBuffer ==
  /\ [](\A screen \in Screens :
          /\ Cardinality(AutoSubmitOf(screen)) <= 1
          /\ \A t \in AutoSubmitOf(screen) : t.id = RefOf(screen))
  /\ [][(last' # last /\ last'.op = "submit" /\ last'.via = "timer")
          => \E screen \in Screens :
               last'.screen = screen /\ (AutoSubmitOf(screen))' = {}]_vars

\* a later fragment replaced the timer a complete frame had started
C4_Witness ==
  /\ last.op = "input" /\ last.screen = "add"
  /\ now > 0 /\ last.at = now
  /\ Len(last.pending) > Len(FrameA) /\ BufferComplete(Prefix(last.pending, Len(FrameA)))
  /\ \E t \in AutoSubmitOf("add") : t.fireAt = now + add.scannerDelay

\* C5: the timer flush of a scan delivered in fragments comes scannerDelay
\* after the last fragment and processes the concatenation of the fragments,
\* which is the text of the input field
C5_FlushIsConcatenation ==
  [][(/\ last.op = "input" /\ last.screen = "add"
      /\ last' # last /\ last'.op = "submit" /\ last'.via = "timer")
       => /\ now = last.at + add.scannerDelay
          /\ last'.pending = add.barcode]_vars

\* C10: a submission ending in a format error or a rejection leaves the slots
\* and the sold-out ledger as they were
C10_RejectLeavesStore ==
  [][(last'.op = "submit" /\ last'.decision \in {"format", "reject"})
       => UNCHANGED <<slots, soldOutPacks>>]_vars

\* a scan was rejected for a gamepack active in another slot
C10_Witness ==
  /\ last.op = "submit" /\ last.decision = "reject"
  /\ \E i \in 1..Len(slots) :
       /\ slots[i].id # last.slotId
       /\ ActiveToday(slots, i, now)
       /\ slots[i].gamepackNumber = Prefix(last.identifier, 11)

(***************************************************************************)
(* Properties of the validator's format checks                             *)
(***************************************************************************)
\* C11: validateBarcode applies its format checks in a fixed order and
\* returns the first failure: a blank barcode is rejected with "Please enter
\* a barcode"; otherwise one shorter than 14 characters with "Barcode must be
\* at least 14 digits"; otherwise one holding a non-digit with "Barcode must
\* contain only numbers".  Every result is a ValidationResult, and every
\* result that is not an accept carries a message.
C11_FormatChecksInOrder ==
  last.op = "validateBarcode" =>
    LET b == last.pending
        r == last.result
        blank == \A i \in 1..Len(b) : IsSpace(b[i])
        nondigit == \E i \in 1..Len(b) : ~IsDigit(b[i]) IN
    /\ r.isValid \in BOOLEAN /\ r.requiresConfirmation \in BOOLEAN
    /\ blank => r = Result(FALSE, FALSE, Null, "Please enter a barcode")
    /\ ~blank /\ Len(b) < 14 =>
         r = Result(FALSE, FALSE, Null, "Barcode must be at least 14 digits")
    /\ ~blank /\ Len(b) >= 14 /\ nondigit =>
         r = Result(FALSE, FALSE, Null, "Barcode must contain only numbers")
    /\ ~r.isValid => r.message # ""

\* a barcode of 14 characters with one letter was rejected for the letter,
\* and a short one with a letter for its length
C11_Witness ==
  /\ last.op = "validateBarcode"
  /\ last.pending = Prefix(DigitsA, 13) \o <<65>>
  /\ last.result.message = "Barcode must contain only numbers"

\* a step that is a call of validateBarcode
ValidateStep == last'.op = "validateBarcode" /\ ops' = ops - 1
\* two calls of validateBarcode in a row with the same arguments; no store
\* operation ran between them, only time may have passed
SameCallAgain ==
  /\ last.op = "validateBarcode"
  /\ last'.pending = last.pending
  /\ last'.slotId = last.slotId

\* C12 (as stated): validateBarcode changes neither the slots nor the ledger,
\* and two calls with the same arguments on the same store return the same
\* decision
C12_ValidatePure ==
  [][ValidateStep =>
        /\ UNCHANGED <<slots, soldOutPacks>>
        /\ SameCallAgain => last'.result = last.result]_vars

\* C12 (amended): validateBarcode changes neither the slots nor the ledger,
\* and two calls with the same arguments on the same store on the same
\* calendar day return the same decision
C12_ValidatePureToday ==
  [][ValidateStep =>
        /\ UNCHANGED <<slots, soldOutPacks>>
        /\ SameCallAgain /\ DateOf(last'.at) = DateOf(last.at) =>
             last'.result = last.result]_vars

\* the validator rejected a gamepack that another slot holds, a millisecond
\* after that slot was written
C12_Witness ==
  /\ last.op = "validateBarcode"
  /\ last.pending = DigitsA /\ last.slotId = 2
  /\ IsReject(last.result)
  /\ Mounted /\ slots[1].gamepackNumber = PackA /\ slots[1].timestamp = 0
  /\ last.at = 1

(***************************************************************************)
(* Properties of the digit extractor                                       *)
(***************************************************************************)
\* C13: for every raw string, extractBarcodeIdentifier returns only digits,
\* and at most 14 of them
C13_DigitsAtMost14 ==
  last.op = "extractBarcodeIdentifier" =>
    /\ \A i \in 1..Len(last.result) : IsDigit(last.result[i])
    /\ Len(last.result) <= 14

\* a framed scan of 27 digits was cut to an identifier
C13_Witness ==
  /\ last.op = "extractBarcodeIdentifier"
  /\ last.pending = Framed(Pattern(27, 3))
  /\ Len(last.result) = 14

\* C14: with d the digits of the raw string in order, the identifier is the
\* first 14 of the last 24 digits of d when d has 24 digits or more, the last
\* 14 digits of d when it has more than 14 and fewer than 24, and d itself
\* when it has 14 or fewer (the empty string gives the empty string)
C14_WindowRule ==
  last.op = "extractBarcodeIdentifier" =>
    LET d == SelectSeq(last.pending, LAMBDA c : c \in 48..57)
        n == Len(d)
        r == last.result IN
    /\ n >= 24 => r = SubSeq(d, n - 23, n - 10)
    /\ n > 14 /\ n < 24 => r = SubSeq(d, n - 13, n)
    /\ n <= 14 => r = d
    /\ last.pending = Empty => r = Empty

\* a scan of exactly 24 digits with separators in it was extracted
C14_Witness ==
  /\ last.op = "extractBarcodeIdentifier"
  /\ last.pending = Split(Pattern(24, 1))
  /\ last.result = Pattern(14, 1)

\* C15: extractBarcodeIdentifier applied to its own result returns that
\* result
C15_Idempotent ==
  last.op = "extractAgain" => last.result = last.pending

\* the identifier of a long scan was extracted again
C15_Witness ==
  /\ last.op = "extractAgain"
  /\ last.pending = extractBarcodeIdentifier(Example26)
  /\ Len(last.result) = 14

\* C16 (as stated): the 26-digit scan 12345000001234500001299988 gives the
\* identifier 45000001234500
C16_Example26 ==
  last.op = "extractBarcodeIdentifier" /\ last.pending = Example26 =>
    last.result = Digits(<<4,5,0,0,0,0,0,1,2,3,4,5,0,0>>)

\* C16 (amended): the 26-digit scan 12345000001234500001299988 gives the
\* identifier 34500000123450, the first 14 of its last 24 digits
\* 345000001234500001299988
C16_Example26Amended ==
  last.op = "extractBarcodeIdentifier" /\ last.pending = Example26 =>
    last.result = Digits(<<3,4,5,0,0,0,0,0,1,2,3,4,5,0>>)

\* the 26-digit scan was extracted
C16_Witness ==
  /\ last.op = "extractBarcodeIdentifier"
  /\ last.pending = Example26
  /\ Len(CleanDigits(last.pending)) = 26

(***************************************************************************)
(* Properties of markAsSoldOut and the sold-out ledger                     *)
(***************************************************************************)
\* a step that is a call markAsSoldOut(id)
SoldOutStep(id) == last'.op = "markAsSoldOut" /\ last'.slotId = id /\ ops' = ops - 1
\* slot id exists and holds the gamepack number g
Holds(id, g) == \E i \in 1..Len(slots) : slots[i].id = id /\ slots[i].gamepackNumber = g

\* C17: markAsSoldOut(id) on a slot whose gamepackNumber is null or the
\* sentinel does nothing: no record is appended, and soldOut and every other
\* field of every slot stay as they are
C17_SoldOutNoOp ==
  [][\A id \in AnyIds :
       SoldOutStep(id) /\ (Holds(id, Null) \/ Holds(id, SentinelGamepack)) =>
         UNCHANGED <<slots, soldOutPacks>>]_vars

\* markAsSoldOut ran on a slot marked empty and left it and the ledger alone
C17_Witness ==
  /\ last.op = "markAsSoldOut" /\ last.slotId = 1
  /\ Mounted
  /\ slots[1].gamepackNumber = SentinelGamepack
  /\ ~slots[1].soldOut
  /\ soldOutPacks = << >>

\* C18: markAsSoldOut(id) on a slot holding a gamepack G other than the
\* sentinel sets soldOut of that slot and changes nothing else in the slots,
\* and appends exactly one record, with gamepackNumber G and slotId id, at
\* the end of the ledger
C18_SoldOutEffect ==
  [][\A id \in AnyIds, g \in {PackA, FragHead} :
       SoldOutStep(id) /\ Holds(id, g) =>
         /\ slots' = [i \in 1..Len(slots) |->
                        IF slots[i].id = id
                        THEN [ id |-> slots[i].id, status |-> slots[i].status,
                               barcode |-> slots[i].barcode,
                               timestamp |-> slots[i].timestamp,
                               gamepackNumber |-> slots[i].gamepackNumber,
                               soldOut |-> TRUE ]
                        ELSE slots[i]]
         /\ Len(soldOutPacks') = Len(soldOutPacks) + 1
         /\ SubSeq(soldOutPacks', 1, Len(soldOutPacks)) = soldOutPacks
         /\ soldOutPacks'[Len(soldOutPacks')].gamepackNumber = g
         /\ soldOutPacks'[Len(soldOutPacks')].slotId = id]_vars

\* markAsSoldOut ran on slot 1 holding gamepack A
C18_Witness ==
  /\ last.op = "markAsSoldOut" /\ last.slotId = 1
  /\ Mounted
  /\ slots[1].soldOut /\ slots[1].status = "scanned" /\ slots[1].barcode = DigitsA
  /\ Len(soldOutPacks) = 1
  /\ soldOutPacks[1].gamepackNumber = PackA /\ soldOutPacks[1].slotId = 1

\* C19: the ledger only grows by appending: a step either leaves it as it is
\* or is a markAsSoldOut that adds one record after the existing ones, which
\* keep their values and their order; updateSlot, clearSlot, markAsEmpty and
\* initializeSlots leave it unchanged
C19_LedgerAppendOnly ==
  [][\/ soldOutPacks' = soldOutPacks
     \/ /\ last'.op = "markAsSoldOut" /\ ops' = ops - 1
        /\ Len(soldOutPacks') = Len(soldOutPacks) + 1
        /\ SubSeq(soldOutPacks', 1, Len(soldOutPacks)) = soldOutPacks]_vars

\* a second record was appended after the first
C19_Witness ==
  /\ last.op = "markAsSoldOut"
  /\ Len(soldOutPacks) = 2
  /\ soldOutPacks[1].soldOutDate < soldOutPacks[2].soldOutDate

\* C20: the records of the ledger have pairwise distinct ids
C20_DistinctIds ==
  \A i, j \in 1..Len(soldOutPacks) :
    i # j => soldOutPacks[i].id # soldOutPacks[j].id

(***************************************************************************)
(* Properties of the slot collection                                       *)
(***************************************************************************)
\* C21: in every state the store operations reach, each slot whose barcode
\* is neither null nor the sentinel has for gamepackNumber the first 11
\* characters of that barcode
C21_GamepackIsPrefix ==
  \A i \in 1..Len(slots) :
    slots[i].barcode # Null /\ slots[i].barcode # SentinelBarcode =>
      LET b == slots[i].barcode
          g == slots[i].gamepackNumber IN
      /\ Len(g) = (IF Len(b) < 11 THEN Len(b) ELSE 11)
      /\ \A j \in 1..Len(g) : g[j] = b[j]

\* slot 1 holds a 14-digit barcode and slot 2 one of 4 digits
C21_Witness ==
  /\ Mounted
  /\ slots[1].barcode = DigitsA /\ slots[1].gamepackNumber = PackA
  /\ slots[2].barcode = FragHead
  /\ last.op = "updateSlot"

\* the collection has 20 slots, with the ids 1..20 in ascending order
TwentySlots(ss) == Len(ss) = 20 /\ \A i \in 1..Len(ss) : ss[i].id = i

\* C22: after initializeSlots, under any sequence of updateSlot, clearSlot,
\* markAsEmpty and markAsSoldOut with any id argument, the collection holds
\* exactly 20 slots with the ids 1..20 in ascending order
C22_TwentySlots ==
  Mounted =>
    /\ TwentySlots(slots)
    /\ \A id \in {NumSlots + 1} :
         /\ TwentySlots(updateSlotIn(slots, id, DigitsA, now))
         /\ TwentySlots(clearSlotIn(slots, id))
         /\ TwentySlots(markAsEmptyIn(slots, id, now))
         /\ TwentySlots(markAsSoldOutSlots(slots, id))

\* updateSlot, markAsEmpty and markAsSoldOut ran, the last on an id no slot has
C22_Witness ==
  /\ Mounted
  /\ last.op = "markAsSoldOut" /\ last.slotId = NumSlots + 1
  /\ slots[1].status = "scanned"
  /\ slots[2].barcode = SentinelBarcode
  /\ Len(slots) = NumSlots

\* a step that is a call updateSlot(id, barcode)
UpdateStep(id, barcode) ==
  last'.op = "updateSlot" /\ last'.slotId = id /\ last'.pending = barcode /\ ops' = ops - 1

\* C29: updateSlot(id, barcode) sets the slot with that id to status scanned,
\* barcode = barcode, gamepackNumber = the first 11 characters of the barcode
\* (the whole barcode when it is shorter), soldOut = false and timestamp =
\* now, and leaves every other slot and the ledger unchanged
C29_UpdateSlotEffect ==
  [][\A id \in OpSlots, barcode \in UpdateBarcodes :
       UpdateStep(id, barcode) =>
         /\ slots' = [i \in 1..Len(slots) |->
                        IF slots[i].id = id
                        THEN [ id |-> id, status |-> "scanned", barcode |-> barcode,
                               gamepackNumber |->
                                 IF Len(barcode) < 11 THEN barcode
                                 ELSE SubSeq(barcode, 1, 11),
                               soldOut |-> FALSE, timestamp |-> now ]
                        ELSE slots[i]]
         /\ soldOutPacks' = soldOutPacks]_vars

\* a short barcode was written over a slot that was sold out
C29_Witness ==
  /\ last.op = "updateSlot" /\ last.slotId = 1 /\ last.pending = FragHead
  /\ Mounted
  /\ slots[1].gamepackNumber = FragHead /\ ~slots[1].soldOut
  /\ Len(soldOutPacks) = 1 /\ soldOutPacks[1].slotId = 1

(***************************************************************************)
(* Properties of the navigator                                             *)
(***************************************************************************)
\* the id of the slot at the least index of a non-empty set of indexes
LeastOf(idx) == slots[CHOOSE i \in idx : \A j \in idx : i <= j].id

C24_NextSlotAfterMutation ==
  [][last'.op = "nextSlot" /\ timers' # timers =>
       last'.slotId = findNextAvailableSlot(slots)]_vars

(***************************************************************************)
(* Properties of the scan buffers of the screens                           *)
(***************************************************************************)
\* C25: when the operator answers No to the confirmation prompt, the slots
\* and the ledger are unchanged and the scan buffer and the input text of the
\* screen that showed the prompt are empty
C25_NoDiscardsScan ==
  [][last'.op = "confirmNo" /\ ops' = ops - 1 =>
       /\ UNCHANGED <<slots, soldOutPacks>>
       /\ last'.screen = "add" => add'.buffer = Empty /\ add'.barcode = Empty
       /\ last'.screen = "modal" => modal'.rawInput = Empty]_vars

\* C26: right after a fragment arrived on a screen that writes scans to the
\* store, an auto-submit timer of that screen is pending exactly when the
\* accumulated text satisfies the completion predicate
C26_TimerIffComplete ==
  last.op = "input" /\ last.screen \in {"inv", "add", "modal"} =>
    (AutoSubmitOf(last.screen) # {} <=> BufferComplete(last.pending))

\* the text a screen's submit handler reads
PendingText(screen) ==
  CASE screen = "inv" -> inv.scanInput
    [] screen = "add" -> add.buffer
    [] screen = "modal" -> modal.rawInput
    [] screen = "test" -> test.buffer

\* C27: a manual submit runs the submit handler at once on the pending text,
\* complete or not, and leaves no auto-submit timer of that screen pending;
\* no timer flush of that screen follows it directly
C27_ManualSubmitCancels ==
  [][/\ (last'.op = "submit" /\ last'.via = "manual" /\ ops' = ops - 1 /\ now' = now)
          => \E screen \in Screens :
               /\ last'.screen = screen
               /\ last'.pending = PendingText(screen)
               /\ last'.at = now
               /\ (AutoSubmitOf(screen))' = {}
     /\ (last.op = "submit" /\ last.via = "manual" /\ last' # last)
          => ~(last'.op = "submit" /\ last'.via = "timer"
               /\ last'.screen = last.screen)]_vars

\* the Add button was pressed on a complete frame while its timer was still
\* pending (no time has passed since the frame arrived)
C27_Witness ==
  /\ last.op = "submit" /\ last.via = "manual" /\ last.screen = "add"
  /\ BufferComplete(last.pending)
  /\ now = 0 /\ add.scannerDelay > 0
  /\ AutoSubmitOf("add") = {}

\* C28: once a submit handler has run to a verdict (format error, rejection
\* or acceptance) the text pending on its screen is empty
C28_FlushEmptiesPending ==
  (last.op = "submit" /\ last.decision \in {"format", "reject", "accept"})
    => PendingText(last.screen) = Empty

\* the add screen's timer has flushed and left none pending
TimerFlushed ==
  /\ last.op = "submit" /\ last.via = "timer" /\ last.screen = "add"
  /\ AutoSubmitOf("add") = {}

\* the operator pressed the Add button, or cleared the field and typed a
\* fragment that is not complete
Intervened ==
  /\ last.screen = "add"
  /\ last.op = "input" \/ (last.op = "submit" /\ last.via = "manual")

\* C30: an auto-submit timer pending on the add screen eventually fires and
\* runs the submit handler, unless a manual submit or a further fragment
\* cancels it first; the flush consumes the one pending timer and leaves none,
\* so it runs once
C30_TimerFlushesOnce ==
  /\ (AutoSubmitOf("add") # {})
       ~> (AutoSubmitOf("add") = {} /\ (TimerFlushed \/ Intervened))
  /\ [][(last'.op = "submit" /\ last'.via = "timer" /\ last'.screen = "add"
         /\ timers' # timers)
          => /\ (AutoSubmitOf("add"))' = {}
             /\ Cardinality(AutoSubmitOf("add")) = 1]_vars

\* the timer of a complete frame fired with no gesture left to make
C30_Witness ==
  /\ TimerFlushed
  /\ BufferComplete(last.pending)
  /\ last.at = add.scannerDelay
  /\ ops = 0

(***************************************************************************)
(* Properties that follow from the rules above                             *)
(***************************************************************************)
\* a slot the operator has scanned or marked empty
Handled(slot) == slot.barcode # Null \/ slot.status # "empty"

HandledCount == Cardinality({i \in 1..Len(slots) : Handled(slots[i])})

\* C31: while the operator takes the slots the navigator selects, starting
\* from untouched slots, the k-th slot selected is slot k: the navigator's
\* selection is the slot after those already scanned or marked empty
C31_AscendingWalk ==
  (last.op \in {"fabPress", "nextSlot"} /\ HandledCount < NumSlots)
    => last.slotId = HandledCount + 1

\* C32: the text an auto-submit timer submits on the inventory screen or in
\* the scanner modal is the input as of the last input event
C32_TimerSubmitsCurrentText ==
  [][(last'.op = "submit" /\ last'.via = "timer" /\ timers' # timers
      /\ last'.screen \in {"inv", "modal"})
       => \E screen \in {"inv", "modal"} :
            last'.screen = screen /\ last'.pending = PendingText(screen)]_vars

\* C33: after an input-change event on the add screen or the scanner-test
\* screen the digits of the buffer are the digits of the input field's text
C33_BufferHoldsEachCharOnce ==
  /\ (last.op = "input" /\ last.screen = "add")
       => CleanDigits(add.buffer) = CleanDigits(add.barcode)
  /\ (last.op = "input" /\ last.screen = "test")
       => CleanDigits(test.buffer) = CleanDigits(test.input)

\* C34: an auto-submit timer is pending on the add screen or the inventory
\* screen only while the completion predicate holds for the screen's current
\* buffer; after a clear none is pending
C34_TimerOnlyWhileComplete ==
  \A screen \in {"add", "inv"} :
    AutoSubmitOf(screen) # {} => BufferComplete(PendingText(screen))

\* a gamepack number of a real pack
RealPack(g) == g # Null /\ g # SentinelGamepack

\* the ledger gained, as its last record, the pack g sold out in slot id
Recorded(g, id) ==
  /\ Len(soldOutPacks') = Len(soldOutPacks) + 1
  /\ soldOutPacks'[Len(soldOutPacks')].gamepackNumber = g
  /\ soldOutPacks'[Len(soldOutPacks')].slotId = id

\* a scan was applied to the store in this step
ScanApplied ==
  /\ slots' # slots
  /\ \/ last'.op = "submit" /\ last'.decision \in {"accept", "confirm"}
     \/ last'.op = "confirmYes"

\* C35 as stated: a scan that replaces a slot's real gamepack by any other
\* gamepack, the sentinel included, adds a sold-out record for the replaced
\* pack in the same step
C35_ReplacedPackRecorded ==
  [][ScanApplied =>
       \A i \in 1..Len(slots) :
         (RealPack(slots[i].gamepackNumber)
          /\ slots'[i].gamepackNumber # slots[i].gamepackNumber)
           => Recorded(slots[i].gamepackNumber, slots[i].id)]_vars

\* C35 amended: a scan that replaces a slot's real gamepack by another real
\* gamepack adds a sold-out record for the replaced pack in the same step; a
\* scan of the all-zero sentinel is accepted unconditionally and replaces the
\* pack without a record
C35_ReplacedByRealPackRecorded ==
  [][ScanApplied =>
       \A i \in 1..Len(slots) :
         /\ (RealPack(slots[i].gamepackNumber)
             /\ RealPack(slots'[i].gamepackNumber)
             /\ slots'[i].gamepackNumber # slots[i].gamepackNumber)
              => Recorded(slots[i].gamepackNumber, slots[i].id)
         /\ (RealPack(slots[i].gamepackNumber)
             /\ slots'[i].gamepackNumber = SentinelGamepack)
              => soldOutPacks' = soldOutPacks]_vars

\* the operator confirmed that the pack in a slot was sold out; the slot now
\* holds another real pack and the ledger ends with the replaced one
C35_Witness ==
  /\ last.op = "confirmYes" /\ last.screen = "add"
  /\ soldOutPacks # << >>
  /\ \E i \in 1..Len(slots) :
       /\ slots[i].id = last.slotId
       /\ RealPack(slots[i].gamepackNumber)
       /\ soldOutPacks[Len(soldOutPacks)].slotId = slots[i].id
       /\ soldOutPacks[Len(soldOutPacks)].gamepackNumber # slots[i].gamepackNumber

\* C36: a slot whose gamepack number is the sentinel has the status 'empty'
C36_SentinelIsEmpty ==
  \A i \in 1..Len(slots) :
    slots[i].gamepackNumber = SentinelGamepack => slots[i].status = "empty"

\* C37: a slot whose soldOut flag is set holds a real pack
C37_SoldOutHoldsPack ==
  \A i \in 1..Len(slots) :
    slots[i].soldOut => RealPack(slots[i].gamepackNumber)

\* C38 as stated: markAsSoldOut on a slot that is already sold out for the pack it
\* holds changes neither the slots nor the ledger
C38_SoldOutIdempotent ==
  [][\A id \in AnyIds :
       (SoldOutStep(id)
        /\ \E i \in 1..Len(slots) :
             slots[i].id = id /\ slots[i].soldOut /\ RealPack(slots[i].gamepackNumber))
         => UNCHANGED <<slots, soldOutPacks>>]_vars

\* C38 amended: markAsSoldOut on a slot that is already sold out for the
\* pack it holds leaves the slots unchanged and appends one more record for
\* that pack and slot: the ledger has one record per call, not per placement
C38_SoldOutAppendsAgain ==
  [][\A id \in AnyIds :
       \A i \in 1..Len(slots) :
         (SoldOutStep(id) /\ slots[i].id = id /\ slots[i].soldOut
          /\ RealPack(slots[i].gamepackNumber))
           => /\ slots' = slots
              /\ Recorded(slots[i].gamepackNumber, id)]_vars

\* markAsSoldOut ran twice on one placement: the ledger ends with two records
\* of the pack the sold-out slot holds
C38_Witness ==
  /\ last.op = "markAsSoldOut"
  /\ Len(soldOutPacks) >= 2
  /\ \E i \in 1..Len(slots) :
       /\ slots[i].id = last.slotId /\ slots[i].soldOut
       /\ \A k \in {Len(soldOutPacks) - 1, Len(soldOutPacks)} :
            /\ soldOutPacks[k].slotId = slots[i].id
            /\ soldOutPacks[k].gamepackNumber = slots[i].gamepackNumber

\* C39: every slot's status is 'empty' or 'scanned', so the slot the
\* navigator returns is never chosen by its first rule, a pending slot
C39_NeverPending ==
  /\ \A i \in 1..Len(slots) : slots[i].status \in {"empty", "scanned"}
  /\ Mounted =>
       \A i \in 1..Len(slots) :
         slots[i].id = findNextAvailableSlot(slots) => slots[i].status # "pending"

\* the store has been through updateSlot, markAsSoldOut and clearSlot: a
\* record is in the ledger and the slot it came from is untouched again
C39_Witness ==
  /\ last.op = "clearSlot"
  /\ soldOutPacks # << >>
  /\ \E i \in 1..Len(slots) :
       /\ slots[i].id = last.slotId
       /\ slots[i].id = soldOutPacks[1].slotId
       /\ slots[i].barcode = Null /\ slots[i].status = "empty"

====
